---- MODULE Spec2Model ----
(***************************************************************************)
(* A model of the agent orchestration core of swiggy-tg-bot:               *)
(*   - the MCP client (connection cache, handshake, tools/list,            *)
(*     tools/call, tool-name namespacing),                                 *)
(*   - the catalog cache of claude-mcp.js (getClaudeTools, clearCaches),   *)
(*   - the agent loop chatWithClaudeMcp.                                   *)
(*                                                                         *)
(* The module holds several specifications over one set of variables; each *)
(* one drives a part of the program and leaves the other variables at      *)
(* their initial values:                                                   *)
(*   SpecNames    the naming function and its inverse                      *)
(*   SpecListAll  one call of listAllTools                                 *)
(*   SpecCatalog  concurrent getClaudeTools calls and clearCaches          *)
(*   SpecConn     concurrent ensureConnection / listToolsForServer /       *)
(*                callTool against the process-wide connection cache       *)
(*   SpecLoop     one invocation of chatWithClaudeMcp                      *)
(*                                                                         *)
(* Strings that the code takes apart (tool names, prefixes) are sequences  *)
(* of one-character strings; texts that the code only matches with regular *)
(* expressions are sequences of words.                                     *)
(***************************************************************************)
EXTENDS Integers, Sequences, FiniteSets, TLC

VARIABLES
    \* SpecNames
    nmPc, nmServer, nmName, nmTool, nmResolved,
    \* the process-wide connection cache (baseUrl -> connection)
    connections,
    \* SpecListAll: one call of listAllTools
    laPc, laToken, laSettled, laResult,
    \* SpecConn: concurrent listToolsForServer / callTool invocations
    tPc, tOp, tConn, tHit, initCount, tRequest, tResult,
    \* the process-wide catalog cache of claude-mcp.js
    cachedTools, cachedToolsToken,
    \* SpecCatalog: concurrent getClaudeTools calls, and what each one saw
    gPc, gToken, gCached, gSnap, gFresh, gAfterClear, gListTokens, gResult,
    cleared,
    \* SpecLoop: one invocation of chatWithClaudeMcp. lastMessage is the last
    \* element of currentMessages; modelCalls, allToolUse and outcome record
    \* the number of model invocations, whether every response so far asked
    \* for a tool, and what the last callTool settled to
    lPc, round, toolUses, useIdx, toolResults, lastOrderToolResult,
    lastMessage, lResult, modelCalls, allToolUse, outcome,
    \* what getClaudeTools settled to in this invocation
    lTools,
    \* the number of tools/call requests sent for each tool request of the
    \* current round
    callsSent,
    \* the number of turns the loop has appended to currentMessages
    turnsPushed,
    \* SpecVerify: the outcome verifier applied to one tool result
    \* and the reply to an end_turn response with text vText that follows
    vPc, vContent, vOutcome, vText, vReply,
    \* SpecBackfill: one requested invocation, the session state, and the
    \* arguments callTool is called with
    bPc, bName, bInput, bCtx, bArgs,
    \* SpecSession: the session state through one invocation of
    \* chatWithClaudeMcp. sHint is the hint in the user's message, sUses the
    \* tool requests of the round, sArgs and sResults the arguments callTool
    \* got and the tool_result blocks of the round so far, sRoundCtx the
    \* session state when the round's response arrived
    sPc, sRound, sCtx, sRoundCtx, sHint, sUses, sIdx, sArgs, sResults, sResult,
    \* SpecChat: the message handler of index.js. chatHistory and
    \* sessionState are the two Maps keyed by chat id, objects the session
    \* state objects the Map and the handlers refer to; for each handler:
    \* its position, chat, text, the history and the session state object it
    \* passed to chatWithClaudeMcp, and the reply. clears counts the /clear
    \* commands handled for each chat, hEpoch is that count when the
    \* handler's loop invocation started, handled the messages received
    chatHistory, sessionState, objects,
    hPc, hChat, hText, hPrev, hState, hReply, hEpoch, clears, handled

chatVars == <<chatHistory, sessionState, objects,
              hPc, hChat, hText, hPrev, hState, hReply, hEpoch, clears,
              handled>>
sessionVars == <<sPc, sRound, sCtx, sRoundCtx, sHint, sUses, sIdx, sArgs,
                 sResults, sResult>>
backfillVars == <<bPc, bName, bInput, bCtx, bArgs>>
verifyVars == <<vPc, vContent, vOutcome, vText, vReply>>
loopVars == <<lPc, round, toolUses, useIdx, toolResults, lastOrderToolResult,
              lastMessage, lResult, modelCalls, allToolUse, outcome, lTools,
              callsSent, turnsPushed>>
namesVars == <<nmPc, nmServer, nmName, nmTool, nmResolved>>
listAllVars == <<laPc, laToken, laSettled, laResult>>
taskVars == <<tPc, tOp, tConn, tHit, initCount, tRequest, tResult>>
cacheVars == <<cachedTools, cachedToolsToken>>
\* what the actions of each specification leave alone
NamesFrame == <<connections, laPc, laToken, laSettled, laResult,
                tPc, tOp, tConn, tHit, initCount, tRequest, tResult,
                cachedTools, cachedToolsToken,
                gPc, gToken, gCached, gSnap, gFresh, gAfterClear, gListTokens,
                gResult, cleared, loopVars, verifyVars, backfillVars, sessionVars, chatVars>>
ListAllFrame == <<nmPc, nmServer, nmName, nmTool, nmResolved,
                  tPc, tOp, tConn, tHit, initCount, tRequest, tResult,
                  cachedTools, cachedToolsToken,
                  gPc, gToken, gCached, gSnap, gFresh, gAfterClear, gListTokens,
                  gResult, cleared, loopVars, verifyVars, backfillVars, sessionVars, chatVars>>
ConnFrame == <<nmPc, nmServer, nmName, nmTool, nmResolved,
               laPc, laToken, laSettled, laResult,
               cachedTools, cachedToolsToken,
               gPc, gToken, gCached, gSnap, gFresh, gAfterClear, gListTokens,
               gResult, cleared, loopVars, verifyVars, backfillVars, sessionVars, chatVars>>
CatalogFrame == <<nmPc, nmServer, nmName, nmTool, nmResolved,
                  laPc, laToken, laSettled, laResult,
                  tPc, tOp, tConn, tHit, initCount, tRequest, tResult,
                  loopVars, verifyVars, backfillVars, sessionVars, chatVars>>
LoopFrame == <<nmPc, nmServer, nmName, nmTool, nmResolved, connections,
               laPc, laToken, laSettled, laResult,
               tPc, tOp, tConn, tHit, initCount, tRequest, tResult,
               cachedTools, cachedToolsToken,
               gPc, gToken, gCached, gSnap, gFresh, gAfterClear, gListTokens,
               gResult, cleared, verifyVars, backfillVars, sessionVars, chatVars>>
callerVars == <<gPc, gToken, gCached, gSnap, gFresh, gAfterClear, gListTokens,
                gResult, cleared>>
vars == <<nmPc, nmServer, nmName, nmTool, nmResolved, connections,
          laPc, laToken, laSettled, laResult,
          tPc, tOp, tConn, tHit, initCount, tRequest, tResult,
          cachedTools, cachedToolsToken,
          gPc, gToken, gCached, gSnap, gFresh, gAfterClear, gListTokens,
          gResult, cleared, loopVars, verifyVars, backfillVars, sessionVars, chatVars>>

VerifyFrame == <<nmPc, nmServer, nmName, nmTool, nmResolved, connections,
                 laPc, laToken, laSettled, laResult,
                 tPc, tOp, tConn, tHit, initCount, tRequest, tResult,
                 cachedTools, cachedToolsToken,
                 gPc, gToken, gCached, gSnap, gFresh, gAfterClear, gListTokens,
                 gResult, cleared, loopVars, backfillVars, sessionVars, chatVars>>
BackfillFrame == <<nmPc, nmServer, nmName, nmTool, nmResolved, connections,
                   laPc, laToken, laSettled, laResult,
                   tPc, tOp, tConn, tHit, initCount, tRequest, tResult,
                   cachedTools, cachedToolsToken,
                   gPc, gToken, gCached, gSnap, gFresh, gAfterClear,
                   gListTokens, gResult, cleared, loopVars, verifyVars,
                   sessionVars, chatVars>>
SessionFrame == <<nmPc, nmServer, nmName, nmTool, nmResolved, connections,
                  laPc, laToken, laSettled, laResult,
                  tPc, tOp, tConn, tHit, initCount, tRequest, tResult,
                  cachedTools, cachedToolsToken,
                  gPc, gToken, gCached, gSnap, gFresh, gAfterClear,
                  gListTokens, gResult, cleared, loopVars, verifyVars,
                  backfillVars, chatVars>>
ChatFrame == <<nmPc, nmServer, nmName, nmTool, nmResolved, connections,
               laPc, laToken, laSettled, laResult,
               tPc, tOp, tConn, tHit, initCount, tRequest, tResult,
               cachedTools, cachedToolsToken,
               gPc, gToken, gCached, gSnap, gFresh, gAfterClear,
               gListTokens, gResult, cleared, loopVars, verifyVars,
               backfillVars, sessionVars>>

\* null / undefined
None == [tag |-> "none"]

(***************************************************************************)
(* Strings                                                                 *)
(***************************************************************************)
StartsWith(s, p) == Len(s) >= Len(p) /\ SubSeq(s, 1, Len(p)) = p

Slice(s, n) == SubSeq(s, n + 1, Len(s))

RECURSIVE SeqsUpTo(_, _)
SeqsUpTo(A, n) ==
    IF n = 0 THEN {<<>>}
    ELSE LET shorter == SeqsUpTo(A, n - 1)
         IN shorter \cup {Append(s, a) : s \in shorter, a \in A}

(***************************************************************************)
(* Endpoints and their prefixes                                            *)
(***************************************************************************)
ServerKeys == <<"swiggy_food", "swiggy_im", "swiggy_dineout">>

Servers == {ServerKeys[i] : i \in 1..Len(ServerKeys)}

SESSION_PREFIX ==
    [s \in Servers |->
        CASE s = "swiggy_food" ->
                <<"s","w","i","g","g","y","_","f","o","o","d","_","_">>
          [] s = "swiggy_im" ->
                <<"s","w","i","g","g","y","_","i","m","_","_">>
          [] s = "swiggy_dineout" ->
                <<"s","w","i","g","g","y","_","d","i","n","e","o","u","t","_","_">>]

SWIGGY_BASE_URLS ==
    [s \in Servers |->
        CASE s = "swiggy_food" -> "https://mcp.swiggy.com/food"
          [] s = "swiggy_im" -> "https://mcp.swiggy.com/im"
          [] s = "swiggy_dineout" -> "https://mcp.swiggy.com/dineout"]

BaseUrls == {SWIGGY_BASE_URLS[s] : s \in Servers}

UnknownName == <<"u","n","k","n","o","w","n">>

(***************************************************************************)
(* The parts of the state a specification does not drive stay as below.   *)
(***************************************************************************)
NoConnections == [b \in BaseUrls |-> None]

ConnIdle == connections = NoConnections

NamesIdle ==
    /\ nmPc = "off"
    /\ nmServer = "swiggy_food"
    /\ nmName = <<>>
    /\ nmTool = None
    /\ nmResolved = None

MaxTasks == 2

Tasks == 1..MaxTasks

TasksIdle ==
    /\ tPc = [t \in Tasks |-> "idle"]
    /\ tOp = [t \in Tasks |-> None]
    /\ tConn = [t \in Tasks |-> None]
    /\ tHit = [t \in Tasks |-> FALSE]
    /\ initCount = [b \in BaseUrls |-> 0]
    /\ tRequest = [t \in Tasks |-> None]
    /\ tResult = [t \in Tasks |-> None]

MaxCallers == 2

Callers == 1..MaxCallers

CacheIdle ==
    /\ cachedTools = None
    /\ cachedToolsToken = "null"

CallersIdle ==
    /\ gPc = [c \in Callers |-> "idle"]
    /\ gToken = [c \in Callers |-> "undefined"]
    /\ gCached = [c \in Callers |-> {}]
    /\ gSnap = [c \in Callers |-> [cache |-> None, token |-> "null"]]
    /\ gFresh = [c \in Callers |-> FALSE]
    /\ gAfterClear = [c \in Callers |-> FALSE]
    /\ gListTokens = [c \in Callers |-> {}]
    /\ gResult = [c \in Callers |-> None]
    /\ cleared = FALSE

ListAllIdle ==
    /\ laPc = "off"
    /\ laToken = "undefined"
    /\ laSettled = [s \in Servers |-> None]
    /\ laResult = None

LoopIdle ==
    /\ lPc = "off"
    /\ round = 0
    /\ toolUses = <<>>
    /\ useIdx = 0
    /\ toolResults = <<>>
    /\ lastOrderToolResult = None
    /\ lastMessage = None
    /\ lResult = None
    /\ modelCalls = 0
    /\ allToolUse = TRUE
    /\ outcome = None
    /\ lTools = None
    /\ callsSent = <<>>
    /\ turnsPushed = 0

VerifyIdle ==
    /\ vPc = "off"
    /\ vContent = None
    /\ vOutcome = None
    /\ vText = <<>>
    /\ vReply = None

\* the chats of the bot, and the message handlers that can be in flight
\* together (a message is taken by the first one that is free)
Chats == {"c1", "c2"}
Handlers == {1, 2}
\* no session state object: sessionState.get(chatId) is undefined
NoObject == 0

ChatIdle ==
    /\ chatHistory = [c \in Chats |-> <<>>]
    /\ sessionState = [c \in Chats |-> NoObject]
    /\ objects = <<>>
    /\ hPc = [h \in Handlers |-> "off"]
    /\ hChat = [h \in Handlers |-> "c1"]
    /\ hText = [h \in Handlers |-> ""]
    /\ hPrev = [h \in Handlers |-> <<>>]
    /\ hState = [h \in Handlers |-> NoObject]
    /\ hReply = [h \in Handlers |-> ""]
    /\ hEpoch = [h \in Handlers |-> 0]
    /\ clears = [c \in Chats |-> 0]
    /\ handled = 0

SessionIdle ==
    /\ sPc = "off"
    /\ sRound = 0
    /\ sCtx = None
    /\ sRoundCtx = None
    /\ sHint = None
    /\ sUses = <<>>
    /\ sIdx = 0
    /\ sArgs = <<>>
    /\ sResults = <<>>
    /\ sResult = None

BackfillIdle ==
    /\ bPc = "off"
    /\ bName = <<>>
    /\ bInput = None
    /\ bCtx = None
    /\ bArgs = None

(***************************************************************************)
(* getServerAndName: the first prefix, in the order of SESSION_PREFIX's    *)
(* entries, that the name starts with; the rest of the name is the         *)
(* original name. None when no prefix matches.                             *)
(***************************************************************************)
RECURSIVE FirstPrefix(_, _)
FirstPrefix(claudeToolName, i) ==
    IF i > Len(ServerKeys) THEN 0
    ELSE IF StartsWith(claudeToolName, SESSION_PREFIX[ServerKeys[i]]) THEN i
    ELSE FirstPrefix(claudeToolName, i + 1)

\* a resolver that cuts one character too few off the front
getServerAndNameShort(claudeToolName) ==
    LET i == FirstPrefix(claudeToolName, 1)
    IN IF i = 0 THEN None
       ELSE [server |-> ServerKeys[i],
             name |-> Slice(claudeToolName, Len(SESSION_PREFIX[ServerKeys[i]]) - 1)]

\* a resolution that sends a name without prefix to the food endpoint
getServerAndNameFallback(claudeToolName) ==
    LET i == FirstPrefix(claudeToolName, 1)
    IN IF i = 0 THEN [server |-> "swiggy_food", name |-> claudeToolName]
       ELSE [server |-> ServerKeys[i],
             name |-> Slice(claudeToolName, Len(SESSION_PREFIX[ServerKeys[i]]))]

getServerAndName(claudeToolName) ==
    LET i == FirstPrefix(claudeToolName, 1)
    IN IF i = 0 THEN None
       ELSE [server |-> ServerKeys[i],
             name |-> Slice(claudeToolName, Len(SESSION_PREFIX[ServerKeys[i]]))]

(***************************************************************************)
(* The descriptor listToolsForServer returns for one listed tool:          *)
(*   name: prefix + (tool.name || 'unknown'), _server, _originalName.      *)
(* A missing name and an empty name are both falsy in the code; the model  *)
(* writes both as the empty string.                                        *)
(***************************************************************************)
\* a descriptor named without its endpoint's prefix
NamespacedToolNoPrefix(serverKey, toolName) ==
    [name |-> IF toolName = <<>> THEN UnknownName ELSE toolName,
     server |-> serverKey,
     originalName |-> toolName]

NamespacedTool(serverKey, toolName) ==
    [name |-> SESSION_PREFIX[serverKey]
                \o (IF toolName = <<>> THEN UnknownName ELSE toolName),
     server |-> serverKey,
     originalName |-> toolName]

(***************************************************************************)
(* Results of the asynchronous functions: a returned value or a thrown     *)
(* Error. An error message is the sequence of the fragments the code       *)
(* concatenates.                                                           *)
(***************************************************************************)
Return(v) == [ok |-> TRUE, value |-> v]

Throw(m) == [ok |-> FALSE, message |-> m]

\* s contains part as a contiguous piece
Contains(s, part) ==
    \E i \in 1..(Len(s) - Len(part) + 1) : SubSeq(s, i, i + Len(part) - 1) = part

RECURSIVE Flatten(_)
Flatten(ss) == IF ss = <<>> THEN <<>> ELSE Head(ss) \o Flatten(Tail(ss))

\* Array.prototype.join on an array of strings
RECURSIVE Join(_, _)
Join(ss, sep) ==
    IF ss = <<>> THEN <<>>
    ELSE IF Len(ss) = 1 THEN Head(ss)
    ELSE Head(ss) \o sep \o Join(Tail(ss), sep)

\* Array.prototype.map
RECURSIVE Map(_, _)
Map(f(_), s) == IF s = <<>> THEN <<>> ELSE <<f(Head(s))>> \o Map(f, Tail(s))

(***************************************************************************)
(* Credentials. "undefined" stands for a missing token (getSwiggyAuth      *)
(* returns undefined), "" for an empty one, " " for a blank one.           *)
(***************************************************************************)
Tokens == {"tokA", "tokB"}

Credentials == Tokens \cup {"undefined", "", " "}

\* a check that lets every token through
FalsyNever(token) == FALSE

Falsy(token) == token \in {"undefined", ""}

Trim(token) == IF token = " " THEN "" ELSE token

(***************************************************************************)
(* The connection cache: connections.get(key) is None or the record        *)
(* ensureConnection stored. sessionId "null" is the stateless connection.  *)
(***************************************************************************)
SessionIds == {"null", "sid1"}

(***************************************************************************)
(* The remote's answers. An initialize response: the fetch rejects, or it  *)
(* resolves with res.ok, a body that may carry an error object, and an     *)
(* optional mcp-session-id header. A tools/list response: a body that is   *)
(* not JSON, a body with an error object, or a result listing tool names.  *)
(***************************************************************************)
RemoteMessages == {"unauthorized"}

InitResponses ==
    {[kind |-> "reject"]}
        \cup [kind : {"response"}, ok : BOOLEAN,
              error : RemoteMessages \cup {"none"}, sessionId : SessionIds]

\* the ensureSession of src/src/swiggy-mcp-client.js, which refuses a
\* response without a session id
HandshakeOutcomeSessionOnly(baseUrl, token, resp) ==
    IF resp.kind = "reject" THEN Throw(<<"fetch failed">>)
    ELSE IF resp.sessionId = "null"
        THEN Throw(<<"MCP initialize failed: no session id. ">>)
    ELSE Return([sessionId |-> resp.sessionId, baseUrl |-> baseUrl,
                 token |-> token])

\* ensureConnection after the initialize response (lines 54-83): the error
\* object wins over the HTTP status; the connection keeps the caller's token
HandshakeOutcome(baseUrl, token, resp) ==
    IF resp.kind = "reject" THEN Throw(<<"fetch failed">>)
    ELSE IF resp.error # "none"
        THEN Throw(<<"MCP initialize failed: ", resp.error>>)
    ELSE IF ~resp.ok THEN Throw(<<"MCP initialize HTTP ">>)
    ELSE Return([sessionId |-> resp.sessionId, baseUrl |-> baseUrl,
                 token |-> token])

MaxListed == 2

ListedNames == {<<>>, UnknownName, <<"a">>}

\* the tool lists an endpoint can answer with: no name twice
Listings ==
    {l \in SeqsUpTo(ListedNames, MaxListed) :
        \A i, j \in 1..Len(l) : i # j => l[i] # l[j]}

ListResponses ==
    {[kind |-> "invalid"], [kind |-> "error", message |-> "unauthorized"]}
        \cup [kind : {"result"}, tools : Listings]

\* listToolsForServer after the tools/list response (lines 119-137)
ListOutcome(serverKey, resp) ==
    IF resp.kind = "invalid"
        THEN Throw(<<"tools/list invalid JSON (", serverKey, "): ">>)
    ELSE IF resp.kind = "error"
        THEN Throw(<<serverKey, " tools/list: ", resp.message>>)
    ELSE Return(Map(LAMBDA t : NamespacedTool(serverKey, t), resp.tools))

(***************************************************************************)
(* listAllTools after Promise.allSettled (lines 153-168): results maps     *)
(* each endpoint to the settled result of its listToolsForServer.          *)
(***************************************************************************)
AllTools(results) ==
    Flatten(Map(LAMBDA s : IF results[s].ok THEN results[s].value ELSE <<>>,
                ServerKeys))

ListErrors(results) ==
    Map(LAMBDA s : <<s, ": ">> \o results[s].message,
        SelectSeq(ServerKeys, LAMBDA s : ~results[s].ok))

\* an aggregator that reports only the first endpoint's failure
listAllToolsFirstError(results) ==
    LET all == AllTools(results)
        errors == ListErrors(results)
    IN IF Len(all) = 0 /\ Len(errors) > 0
       THEN Throw(<<"Could not load any Swiggy tools. ">> \o Head(errors))
       ELSE Return(all)

\* an aggregator that keeps only the last fulfilled endpoint's tools
listAllToolsLastOnly(results) ==
    LET fulfilled == SelectSeq(ServerKeys, LAMBDA s : results[s].ok)
        errors == ListErrors(results)
    IN IF fulfilled = <<>> \/ (results[fulfilled[Len(fulfilled)]].value = <<>>
                                /\ Len(errors) > 0)
       THEN Throw(<<"Could not load any Swiggy tools. ">>
                    \o Join(errors, <<"; ">>))
       ELSE Return(results[fulfilled[Len(fulfilled)]].value)

listAllToolsSettled(results) ==
    LET all == AllTools(results)
        errors == ListErrors(results)
    IN IF Len(all) = 0 /\ Len(errors) > 0
       THEN Throw(<<"Could not load any Swiggy tools. ">>
                    \o Join(errors, <<"; ">>))
       ELSE Return(all)

\* the token check that opens listAllTools (lines 144-146)
TokenMissing(token) == Falsy(token) \/ Falsy(Trim(token))

(***************************************************************************)
(* SpecListAll: one call of listAllTools(laToken) on an empty connection   *)
(* cache. The three listToolsForServer calls settle in any order; each is  *)
(* taken in one step (handshake, then tools/list).                         *)
(***************************************************************************)
ListAllInit ==
    /\ laPc = "start"
    /\ laToken \in Credentials
    /\ laSettled = [s \in Servers |-> None]
    /\ laResult = None
    /\ ConnIdle
    /\ NamesIdle
    /\ TasksIdle
    /\ CacheIdle
    /\ CallersIdle
    /\ LoopIdle
    /\ VerifyIdle
    /\ BackfillIdle
    /\ SessionIdle
    /\ ChatIdle

\* lines 144-152: the token check, then the three listings are started
LaStart ==
    /\ laPc = "start"
    /\ IF TokenMissing(laToken)
       THEN /\ laResult' = Throw(<<"SWIGGY_AUTH_TOKEN is missing or empty.">>)
            /\ laPc' = "done"
       ELSE /\ laPc' = "listing"
            /\ UNCHANGED laResult
    /\ UNCHANGED <<laToken, laSettled, connections, ListAllFrame>>

\* listToolsForServer(s, laToken) fails in the handshake
LaHandshakeFails(s) ==
    /\ laPc = "listing"
    /\ laSettled[s] = None
    /\ connections[SWIGGY_BASE_URLS[s]] = None
    /\ \E resp \in InitResponses :
        LET h == HandshakeOutcome(SWIGGY_BASE_URLS[s], laToken, resp)
        IN /\ ~h.ok
           /\ laSettled' = [laSettled EXCEPT ![s] = h]
    /\ UNCHANGED <<laPc, laToken, laResult, connections, ListAllFrame>>

\* listToolsForServer(s, laToken) connects and gets its tools/list response
LaListed(s) ==
    /\ laPc = "listing"
    /\ laSettled[s] = None
    /\ connections[SWIGGY_BASE_URLS[s]] = None
    /\ \E resp \in InitResponses, list \in ListResponses :
        LET h == HandshakeOutcome(SWIGGY_BASE_URLS[s], laToken, resp)
        IN /\ h.ok
           /\ connections' = [connections EXCEPT ![SWIGGY_BASE_URLS[s]] = h.value]
           /\ laSettled' = [laSettled EXCEPT ![s] = ListOutcome(s, list)]
    /\ UNCHANGED <<laPc, laToken, laResult, ListAllFrame>>

\* lines 153-168, once all three have settled
LaAggregate ==
    /\ laPc = "listing"
    /\ \A s \in Servers : laSettled[s] # None
    /\ laResult' = listAllToolsSettled(laSettled)
    /\ laPc' = "done"
    /\ UNCHANGED <<laToken, laSettled, connections, ListAllFrame>>

ListAllNext ==
    \/ LaStart
    \/ \E s \in Servers : LaHandshakeFails(s)
    \/ \E s \in Servers : LaListed(s)
    \/ LaAggregate

SpecListAll == ListAllInit /\ [][ListAllNext]_vars

(***************************************************************************)
(* SpecNames: an endpoint lists a tool named nmName, the aggregator names  *)
(* it, the invoker resolves the name.                                      *)
(***************************************************************************)
MaxNameLen == 3

NameChars == {"a", "_"}

OriginalNames ==
    SeqsUpTo(NameChars, MaxNameLen)
        \cup {UnknownName,
              SESSION_PREFIX["swiggy_im"] \o <<"a">>,
              SESSION_PREFIX["swiggy_food"],
              <<"s","w","i","g","g","y","_">>}

NamesInit ==
    /\ nmPc = "listed"
    /\ nmServer \in Servers
    /\ nmName \in OriginalNames
    /\ nmTool = None
    /\ nmResolved = None
    /\ ConnIdle
    /\ ListAllIdle
    /\ TasksIdle
    /\ CacheIdle
    /\ CallersIdle
    /\ LoopIdle
    /\ VerifyIdle
    /\ BackfillIdle
    /\ SessionIdle
    /\ ChatIdle

NamesNamespace ==
    /\ nmPc = "listed"
    /\ nmTool' = NamespacedTool(nmServer, nmName)
    /\ nmPc' = "named"
    /\ UNCHANGED <<nmServer, nmName, nmResolved, NamesFrame>>

NamesResolve ==
    /\ nmPc = "named"
    /\ nmResolved' = getServerAndName(nmTool.name)
    /\ nmPc' = "resolved"
    /\ UNCHANGED <<nmServer, nmName, nmTool, NamesFrame>>

NamesNext == NamesNamespace \/ NamesResolve

SpecNames == NamesInit /\ [][NamesNext]_vars

(***************************************************************************)
(* C8 (as amended): for every endpoint and every non-empty original tool   *)
(* name, resolving the name the aggregator produced gives back exactly     *)
(* that endpoint and that original name.                                   *)
(***************************************************************************)
C8_RoundTripNonEmpty ==
    (nmPc = "resolved" /\ nmName # <<>>)
        => nmResolved = [server |-> nmServer, name |-> nmName]

\* a name that itself starts with another endpoint's prefix was resolved
C8_Witness ==
    /\ nmPc = "resolved"
    /\ nmServer = "swiggy_food"
    /\ nmName = SESSION_PREFIX["swiggy_im"] \o <<"a">>
    /\ nmResolved = [server |-> "swiggy_food", name |-> nmName]

(***************************************************************************)
(* C8 (as stated): the round trip gives back (endpoint, N) for every       *)
(* original name N an endpoint can list, the empty name included.          *)
(***************************************************************************)
C8_RoundTripAll ==
    nmPc = "resolved"
        => nmResolved = [server |-> nmServer, name |-> nmName]

(***************************************************************************)
(* Claims about listAllTools (SpecListAll)                                 *)
(***************************************************************************)
ToSet(s) == {s[i] : i \in 1..Len(s)}

LaSettledAll == \A s \in Servers : laSettled[s] # None

LaFulfilled == {s \in Servers : laSettled[s] # None /\ laSettled[s].ok}

(***************************************************************************)
(* C5 (as stated): whenever at least one endpoint's listing succeeded,     *)
(* whatever it listed (an empty list included), listAllTools does not      *)
(* raise and returns exactly the union of the namespaced tools of the      *)
(* endpoints that succeeded.                                               *)
(***************************************************************************)
C5_NoRaiseIfAnySucceeds ==
    (laPc = "done" /\ LaSettledAll /\ LaFulfilled # {})
        => /\ laResult.ok
           /\ ToSet(laResult.value)
                = UNION {ToSet(laSettled[s].value) : s \in LaFulfilled}

(***************************************************************************)
(* C6: when the listing of every endpoint failed, listAllTools raises one  *)
(* error whose message contains the failure reason of each of the three    *)
(* endpoints.                                                              *)
(***************************************************************************)
C6_AllFailRaisesAllReasons ==
    (laPc = "done" /\ LaSettledAll /\ LaFulfilled = {})
        => /\ ~laResult.ok
           /\ \A s \in Servers : Contains(laResult.message, laSettled[s].message)

\* all three endpoints failed, each for a different reason
C6_Witness ==
    /\ laPc = "done"
    /\ LaSettledAll
    /\ laSettled["swiggy_food"] = Throw(<<"fetch failed">>)
    /\ laSettled["swiggy_im"]
            = Throw(<<"tools/list invalid JSON (", "swiggy_im", "): ">>)
    /\ laSettled["swiggy_dineout"]
            = Throw(<<"MCP initialize failed: ", "unauthorized">>)
    /\ ~laResult.ok

(***************************************************************************)
(* C9 (as amended): in every catalog listAllTools returns no two tool      *)
(* descriptors share a namespaced name, given that no endpoint's listing   *)
(* holds a name twice once a missing or empty name is read as 'unknown'.   *)
(***************************************************************************)
EffectiveName(toolName) == IF toolName = <<>> THEN UnknownName ELSE toolName

NoDuplicates(names) ==
    \A i, j \in 1..Len(names) : i # j => names[i] # names[j]

LaListingsDistinctAfterFallback ==
    \A s \in LaFulfilled :
        NoDuplicates(Map(LAMBDA t : EffectiveName(t.originalName),
                         laSettled[s].value))

CatalogNamesUnique(catalog) == NoDuplicates(Map(LAMBDA t : t.name, catalog))

C9_UniqueNamesAfterFallback ==
    (laPc = "done" /\ laResult.ok /\ LaListingsDistinctAfterFallback)
        => CatalogNamesUnique(laResult.value)

\* a catalog in which two endpoints list the same original name, and one
\* endpoint lists a tool without a name
C9_Witness ==
    /\ laPc = "done"
    /\ laResult.ok
    /\ LaListingsDistinctAfterFallback
    /\ \E i, j \in 1..Len(laResult.value) :
        /\ laResult.value[i].server # laResult.value[j].server
        /\ laResult.value[i].originalName = laResult.value[j].originalName
    /\ \E i \in 1..Len(laResult.value) : laResult.value[i].originalName = <<>>

(***************************************************************************)
(* C9 (as stated): in every catalog listAllTools returns no two tool       *)
(* descriptors share a namespaced name, given that no endpoint's listing   *)
(* holds a name twice.                                                     *)
(***************************************************************************)
C9_UniqueNames ==
    (laPc = "done" /\ laResult.ok
        /\ \A s \in LaFulfilled :
            NoDuplicates(Map(LAMBDA t : t.originalName, laSettled[s].value)))
        => CatalogNamesUnique(laResult.value)

(***************************************************************************)
(* SpecConn: up to MaxTasks invocations of listToolsForServer or callTool  *)
(* run concurrently on the single-threaded event loop: each runs without   *)
(* interruption from one await to the next. A task is                      *)
(*   idle     not yet called                                               *)
(*   init     awaiting the initialize response (ensureConnection line 36)  *)
(*   notify   awaiting the notifications/initialized fetch (line 71)       *)
(*   request  awaiting the tools/list or tools/call response               *)
(*   done     returned or thrown                                           *)
(* tHit[t] records that ensureConnection returned the cached connection;   *)
(* initCount counts the initialize requests sent to each endpoint;         *)
(* tRequest[t] is the tools/list or tools/call request the task sent;      *)
(* tResult[t] is what the task returned or threw.                          *)
(***************************************************************************)
ConnServers == {"swiggy_food", "swiggy_im"}

PlaceFoodOrder ==
    NamespacedTool("swiggy_food", <<"p", "l", "a", "c", "e", "_", "f", "o", "o", "d", "_", "o", "r", "d", "e", "r">>).name

SearchRestaurants ==
    NamespacedTool("swiggy_food", <<"s", "e", "a", "r", "c", "h">>).name

\* a name the model made up: no endpoint prefix, but an order tool's name
Checkout == <<"c", "h", "e", "c", "k", "o", "u", "t">>

InstamartSearch ==
    NamespacedTool("swiggy_im", <<"s", "e", "a", "r", "c", "h">>).name

\* the names callTool is called with
ConnToolNames == {PlaceFoodOrder, InstamartSearch, Checkout}

\* listToolsForServer(serverKey, token) and callTool(claudeToolName, _, token)
ConnCalls ==
    [method : {"tools/list"}, server : ConnServers, tool : {<<>>}]
        \cup {[method |-> "tools/call",
               server |-> IF getServerAndName(n) = None THEN "unknown"
                          ELSE getServerAndName(n).server,
               tool |-> n] : n \in ConnToolNames}

\* callTool line 176
UnknownTool(claudeToolName) ==
    Throw(<<"unknown", "tool", "server", "for:">> \o claudeToolName)

\* ensureConnection lines 33-35
TokenRequired == Throw(<<"SWIGGY_AUTH_TOKEN is required. ">>)

\* what the tools/list or tools/call response makes of the operation
ResponseOutcomes == {Return(<<>>), Throw(<<"endpoint error">>)}

ConnCredentials == Tokens \cup {"undefined"}

Url(t) ==
    IF tOp[t].server \in Servers THEN SWIGGY_BASE_URLS[tOp[t].server]
    ELSE "none"

\* ensureConnection line 32, for a stricter cache that also compares tokens
CacheHitSameToken(conns, key, token) ==
    conns[key] # None /\ conns[key].token = token

\* ensureConnection line 32: if (connections.get(key)) return connections.get(key)
CacheHit(conns, key, token) == conns[key] # None

\* requestHeaders(conn): "absent" is a header that is not sent
requestHeaders(conn) ==
    [Authorization |-> conn.token,
     McpSessionId |-> IF conn.sessionId # "null" THEN conn.sessionId
                      ELSE "absent"]

\* the fetch of listToolsForServer and of callTool
Request(method, conn) ==
    [method |-> method, url |-> conn.baseUrl, headers |-> requestHeaders(conn)]

ConnInit ==
    /\ ConnIdle
    /\ TasksIdle
    /\ NamesIdle
    /\ ListAllIdle
    /\ CacheIdle
    /\ CallersIdle
    /\ LoopIdle
    /\ VerifyIdle
    /\ BackfillIdle
    /\ SessionIdle
    /\ ChatIdle

\* the call and everything up to its first await: the cache lookup, the
\* token check, the initialize request; with a cached connection the
\* tools/list or tools/call request goes out at once
TStart(t) ==
    /\ tPc[t] = "idle"
    /\ \A u \in Tasks : u < t => tPc[u] # "idle"
    /\ \E call \in ConnCalls, token \in ConnCredentials :
        /\ tOp' = [tOp EXCEPT ![t] =
                        [method |-> call.method, server |-> call.server,
                         tool |-> call.tool, token |-> token]]
        /\ IF call.method = "tools/call" /\ getServerAndName(call.tool) = None
           THEN /\ tPc' = [tPc EXCEPT ![t] = "done"]
                /\ tResult' = [tResult EXCEPT ![t] = UnknownTool(call.tool)]
                /\ UNCHANGED <<tConn, tHit, initCount, tRequest>>
           ELSE LET key == SWIGGY_BASE_URLS[call.server]
                IN IF CacheHit(connections, key, token)
                   THEN /\ tPc' = [tPc EXCEPT ![t] = "request"]
                        /\ tConn' = [tConn EXCEPT ![t] = connections[key]]
                        /\ tHit' = [tHit EXCEPT ![t] = TRUE]
                        /\ tRequest' = [tRequest EXCEPT ![t] =
                                            Request(call.method, connections[key])]
                        /\ UNCHANGED <<initCount, tResult>>
                   ELSE IF Falsy(token)
                   THEN /\ tPc' = [tPc EXCEPT ![t] = "done"]
                        /\ tResult' = [tResult EXCEPT ![t] = TokenRequired]
                        /\ UNCHANGED <<tConn, tHit, initCount, tRequest>>
                   ELSE /\ tPc' = [tPc EXCEPT ![t] = "init"]
                        /\ initCount' = [initCount EXCEPT ![key] = @ + 1]
                        /\ UNCHANGED <<tConn, tHit, tRequest, tResult>>
    /\ UNCHANGED <<connections, ConnFrame>>

\* lines 81-83 and the request that follows the return
Connected(t, sessionId) ==
    LET conn == [sessionId |-> sessionId, baseUrl |-> Url(t),
                 token |-> tOp[t].token]
    IN /\ connections' = [connections EXCEPT ![Url(t)] = conn]
       /\ tConn' = [tConn EXCEPT ![t] = conn]
       /\ tRequest' = [tRequest EXCEPT ![t] = Request(tOp[t].method, conn)]
       /\ tPc' = [tPc EXCEPT ![t] = "request"]

\* lines 54-80: the initialize response arrives
TInitResponse(t) ==
    /\ tPc[t] = "init"
    /\ \E resp \in InitResponses :
        LET h == HandshakeOutcome(Url(t), tOp[t].token, resp)
        IN IF ~h.ok
           THEN /\ tPc' = [tPc EXCEPT ![t] = "done"]
                /\ tResult' = [tResult EXCEPT ![t] = h]
                /\ UNCHANGED <<connections, tConn, tRequest>>
           ELSE IF h.value.sessionId # "null"
           THEN /\ tPc' = [tPc EXCEPT ![t] = "notify"]
                /\ tConn' = [tConn EXCEPT ![t] = h.value]
                /\ UNCHANGED <<connections, tRequest, tResult>>
           ELSE Connected(t, "null") /\ UNCHANGED tResult
    /\ UNCHANGED <<tOp, tHit, initCount, ConnFrame>>

\* line 71: the notification's fetch resolves (whatever the status) or rejects
TNotified(t) ==
    /\ tPc[t] = "notify"
    /\ \/ Connected(t, tConn[t].sessionId) /\ UNCHANGED tResult
       \/ /\ tPc' = [tPc EXCEPT ![t] = "done"]
          /\ tConn' = [tConn EXCEPT ![t] = None]
          /\ tResult' = [tResult EXCEPT ![t] = Throw(<<"fetch failed">>)]
          /\ UNCHANGED <<connections, tRequest>>
    /\ UNCHANGED <<tOp, tHit, initCount, ConnFrame>>

\* the tools/list or tools/call response arrives; the task returns or throws
TResponse(t) ==
    /\ tPc[t] = "request"
    /\ tPc' = [tPc EXCEPT ![t] = "done"]
    /\ tConn' = [tConn EXCEPT ![t] = None]
    /\ \E settled \in ResponseOutcomes :
            tResult' = [tResult EXCEPT ![t] = settled]
    /\ UNCHANGED <<connections, tOp, tHit, initCount, tRequest, ConnFrame>>

\* clearConnectionCache: the explicit invalidation of the connection cache
clearConnectionCache ==
    /\ connections # NoConnections
    /\ connections' = NoConnections
    /\ UNCHANGED <<taskVars, ConnFrame>>

ConnNext ==
    \/ \E t \in Tasks : TStart(t)
    \/ \E t \in Tasks : TInitResponse(t)
    \/ \E t \in Tasks : TNotified(t)
    \/ \E t \in Tasks : TResponse(t)
    \/ clearConnectionCache

SpecConn == ConnInit /\ [][ConnNext]_vars

InHandshake(t) == tPc[t] \in {"init", "notify"}

(***************************************************************************)
(* C3 (as stated): concurrent ensureConnection calls for one endpoint      *)
(* share a single handshake: no two calls are ever in their own handshake  *)
(* with the same endpoint at the same time.                                *)
(***************************************************************************)
C3_SingleFlight ==
    \A t, u \in Tasks :
        (t # u /\ InHandshake(t) /\ InHandshake(u)) => Url(t) # Url(u)

(***************************************************************************)
(* C4: while a connection is cached for an endpoint, no initialize request *)
(* is sent to that endpoint, an operation that starts then goes straight   *)
(* to its request on the cached connection, and only a cache clear removes *)
(* the cached connection.                                                  *)
(***************************************************************************)
C4_ReuseCached ==
    [][\A b \in BaseUrls :
        connections[b] # None =>
            /\ initCount'[b] = initCount[b]
            /\ (connections'[b] # None \/ connections' = NoConnections)
            /\ \A t \in Tasks :
                (tPc[t] = "idle" /\ tPc'[t] # "idle" /\ Url(t)' = b)
                    => (tPc'[t] = "request" /\ tConn'[t] = connections[b])]_vars

\* a call with another token than the cached connection's went straight to
\* its request on the cached connection
C4_Witness ==
    \E t \in Tasks :
        /\ tPc[t] = "request"
        /\ tHit[t]
        /\ tConn[t] = connections[Url(t)]
        /\ tConn[t].token # tOp[t].token
        /\ initCount[Url(t)] = 1

(***************************************************************************)
(* SpecCatalog: up to MaxCallers calls of getClaudeTools run concurrently  *)
(* (one per chat message being handled), and clearCaches may run between   *)
(* any two of their steps. A call is taken in two steps: everything up to  *)
(* its first await (the cache test, listAllTools' token check, the         *)
(* connection lookups and the requests they send), and everything after    *)
(* the three listings have settled. Per call the model records what it     *)
(* saw: gSnap the catalog cache at the call, gFresh that listAllTools was  *)
(* called, gAfterClear that no other call started since the last           *)
(* clearCaches, gListTokens the tokens its tools/list requests carried.    *)
(***************************************************************************)
CatalogCredentials == Tokens \cup {"undefined"}

\* the module variable cachedTools when it holds an array (null is None)
Cached(tools) == [tag |-> "cached", tools |-> tools]

\* mcpToolToClaudeTool: the name is kept as it is
mcpToolToClaudeTool(t) == [name |-> t.name]

\* a cache test that takes only a catalog with tools of every endpoint
CatalogHitIfComplete(tools, toolsToken, token) ==
    /\ tools # None
    /\ toolsToken = token
    /\ Len(tools.tools) >= Cardinality(Servers)

\* getClaudeTools line 73: cachedTools && cachedToolsToken === swiggyAuthToken
CatalogHit(tools, toolsToken, token) == tools # None /\ toolsToken = token

\* getClaudeTools' catch: the error is rethrown with a prefix
LoadFailed(message) == Throw(<<"Swiggy tools could not be loaded. ">> \o message)

CatalogListings == {<<<<"a">>>>}

CatalogListResponses == [kind : {"result"}, tools : CatalogListings]

CatalogInitResponses ==
    {[kind |-> "reject"]}
        \cup [kind : {"response"}, ok : {TRUE}, error : {"none"},
              sessionId : {"sid1"}]

CatalogInit ==
    /\ ConnIdle
    /\ CacheIdle
    /\ CallersIdle
    /\ LoopIdle
    /\ VerifyIdle
    /\ BackfillIdle
    /\ SessionIdle
    /\ ChatIdle
    /\ NamesIdle
    /\ ListAllIdle
    /\ TasksIdle

\* getClaudeTools(token) up to its first await
GStart(c) ==
    /\ gPc[c] = "idle"
    /\ \A d \in Callers : d < c => gPc[d] # "idle"
    /\ \E token \in CatalogCredentials :
        /\ gToken' = [gToken EXCEPT ![c] = token]
        /\ gSnap' = [gSnap EXCEPT ![c] =
                        [cache |-> cachedTools, token |-> cachedToolsToken]]
        /\ gAfterClear' = [gAfterClear EXCEPT ![c] = cleared]
        /\ cleared' = FALSE
        /\ IF CatalogHit(cachedTools, cachedToolsToken, token)
           THEN /\ gResult' = [gResult EXCEPT ![c] = Return(cachedTools.tools)]
                /\ gPc' = [gPc EXCEPT ![c] = "done"]
                /\ UNCHANGED <<gFresh, gCached, gListTokens>>
           ELSE /\ gFresh' = [gFresh EXCEPT ![c] = TRUE]
                /\ IF TokenMissing(token)
                   THEN /\ gResult' = [gResult EXCEPT ![c] =
                            LoadFailed(<<"SWIGGY_AUTH_TOKEN is missing or empty.">>)]
                        /\ gPc' = [gPc EXCEPT ![c] = "done"]
                        /\ UNCHANGED <<gCached, gListTokens>>
                   ELSE LET hits == {s \in Servers :
                                CacheHit(connections, SWIGGY_BASE_URLS[s], token)}
                        IN /\ gPc' = [gPc EXCEPT ![c] = "fetching"]
                           /\ gCached' = [gCached EXCEPT ![c] = hits]
                           /\ gListTokens' = [gListTokens EXCEPT ![c] =
                                {connections[SWIGGY_BASE_URLS[s]].token : s \in hits}]
                           /\ UNCHANGED gResult
    /\ UNCHANGED <<connections, cacheVars, CatalogFrame>>

\* what one listToolsForServer of the call settles to: on a connection it
\* found cached only the tools/list response counts; otherwise the handshake
\* comes first, and a connection it establishes is stored under its token
Settled(c, s, init, list) ==
    IF s \in gCached[c] THEN ListOutcome(s, list)
    ELSE LET h == HandshakeOutcome(SWIGGY_BASE_URLS[s], gToken[c], init)
         IN IF h.ok THEN ListOutcome(s, list) ELSE h

\* the three listings have settled: listAllTools returns or throws, and
\* getClaudeTools fills the cache (lines 76-80) or rethrows (lines 81-85)
GComplete(c) ==
    /\ gPc[c] = "fetching"
    /\ \E init \in [Servers -> CatalogInitResponses],
          list \in [Servers -> CatalogListResponses] :
        LET results == [s \in Servers |-> Settled(c, s, init[s], list[s])]
            handshook == {s \in Servers \ gCached[c] :
                HandshakeOutcome(SWIGGY_BASE_URLS[s], gToken[c], init[s]).ok}
            raw == listAllToolsSettled(results)
        IN /\ connections' =
                [b \in BaseUrls |->
                    IF \E s \in handshook : SWIGGY_BASE_URLS[s] = b
                    THEN LET s == CHOOSE s \in handshook : SWIGGY_BASE_URLS[s] = b
                         IN HandshakeOutcome(b, gToken[c], init[s]).value
                    ELSE connections[b]]
           /\ gListTokens' = [gListTokens EXCEPT ![c] =
                @ \cup {gToken[c] : s \in handshook}]
           /\ IF raw.ok
              THEN LET tools == Map(mcpToolToClaudeTool, raw.value)
                   IN /\ cachedTools' = Cached(tools)
                      /\ cachedToolsToken' = gToken[c]
                      /\ gResult' = [gResult EXCEPT ![c] = Return(tools)]
              ELSE /\ gResult' = [gResult EXCEPT ![c] = LoadFailed(raw.message)]
                   /\ UNCHANGED cacheVars
    /\ gPc' = [gPc EXCEPT ![c] = "done"]
    /\ UNCHANGED <<gToken, gCached, gSnap, gFresh, gAfterClear, cleared,
                   CatalogFrame>>

\* clearCaches (claude-mcp.js lines 57-61), with the connection cache's clear
clearCaches ==
    /\ cachedTools' = None
    /\ cachedToolsToken' = "null"
    /\ connections' = NoConnections
    /\ cleared' = TRUE
    /\ UNCHANGED <<gPc, gToken, gCached, gSnap, gFresh, gAfterClear,
                   gListTokens, gResult, CatalogFrame>>

CatalogNext ==
    \/ \E c \in Callers : GStart(c)
    \/ \E c \in Callers : GComplete(c)
    \/ clearCaches

SpecCatalog == CatalogInit /\ [][CatalogNext]_vars

\* the call found a catalog cached under its own credential
SnapHit(c) == gSnap[c].cache # None /\ gSnap[c].token = gToken[c]

(***************************************************************************)
(* What the catalog cache does guarantee: a getClaudeTools call made with  *)
(* the credential that filled the cache returns the cached catalog and     *)
(* sends no tools/list request; a call made with another credential calls  *)
(* listAllTools afresh; and a call that follows clearCaches and finds the  *)
(* cache still empty calls listAllTools afresh whatever its credential.    *)
(***************************************************************************)
CatalogCacheKeyedByToken ==
    \A c \in Callers :
        gPc[c] # "idle" =>
            /\ SnapHit(c) =>
                /\ gPc[c] = "done"
                /\ gResult[c] = Return(gSnap[c].cache.tools)
                /\ gListTokens[c] = {}
                /\ ~gFresh[c]
            /\ (gSnap[c].cache # None /\ gSnap[c].token # gToken[c]) => gFresh[c]
            /\ (gAfterClear[c] /\ gSnap[c].cache = None) => gFresh[c]

\* one call was served from the cache, with the credential that had filled
\* the cache again after clearCaches
CatalogServedFromRefill ==
    \E c, d \in Callers :
        /\ gPc[c] = "done" /\ gPc[d] = "done"
        /\ gFresh[c] /\ gAfterClear[c] /\ gResult[c].ok
        /\ SnapHit(d) /\ gToken[d] = gToken[c]
        /\ gResult[d] = gResult[c]
        /\ gResult[d].value # <<>>

(***************************************************************************)
(* C7: getClaudeTools returns the cached catalog without any tools/list    *)
(* request when called with the credential that fetched it, performs a     *)
(* fresh fetch when called with a different credential, and performs a     *)
(* fresh fetch after clearCaches regardless of credential. The first two   *)
(* parts are in CatalogCacheKeyedByToken; the third is that the call that  *)
(* follows clearCaches always calls listAllTools.                          *)
(***************************************************************************)
C7_FreshAfterClear ==
    /\ CatalogCacheKeyedByToken
    /\ \A c \in Callers : (gPc[c] # "idle" /\ gAfterClear[c]) => gFresh[c]

(***************************************************************************)
(* Texts of the agent loop. A text is a sequence of words in lower case    *)
(* without punctuation ("\n" is a line break, "Error:" the prefix the loop *)
(* tests for); the empty sequence is the empty string. A regular           *)
(* expression of the code is evaluated on the words: Literals(w) are the   *)
(* literals of the expressions that occur in the word w.                   *)
(***************************************************************************)
Literals(w) ==
    CASE w \in {"order", "orders"} -> {"order"}
      [] w = "booking" -> {"booking"}
      [] w = "placed" -> {"placed"}
      [] w = "confirmed" -> {"confirmed"}
      [] w = "successfully" -> {"success", "successful", "successfully"}
      [] w = "Error:" -> {"Error:", "error"}
      [] w = "failed" -> {"fail", "failed"}
      [] w = "unable" -> {"unable"}
      [] w = "couldn't" -> {"couldn't"}
      [] w = "invalid" -> {"invalid"}
      [] w = "id" -> {"id"}
      [] OTHER -> {}

\* the text has one of the literals somewhere
Test(text, literals) ==
    \E i \in 1..Len(text) : Literals(text[i]) \cap literals # {}

\* first ... second on one line ("." does not match a line break)
TestThen(text, first, second) ==
    \E i, j \in 1..Len(text) :
        /\ i < j
        /\ Literals(text[i]) \cap first # {}
        /\ Literals(text[j]) \cap second # {}
        /\ \A k \in i..j : text[k] # "\n"

\* first\s+second: only white space between the two
TestNext(text, first, second) ==
    \E i, j \in 1..Len(text) :
        /\ i < j
        /\ text[i] = first
        /\ text[j] = second
        /\ \A k \in (i + 1)..(j - 1) : text[k] = "\n"

\* line 214
claimsSuccess(text) ==
    \/ TestThen(text, {"order", "booking"}, {"placed", "confirmed", "successful"})
    \/ TestThen(text, {"successfully"}, {"placed", "ordered", "booked"})
    \/ TestNext(text, "order", "placed")
    \/ TestNext(text, "booking", "confirmed")
    \/ TestNext(text, "order", "id")

(***************************************************************************)
(* What a tool returns is a string: plain text, or the JSON of an object,  *)
(* of which the model keeps the members the loop reads.                    *)
(***************************************************************************)
PlainText(words) == [kind |-> "text", words |-> words]

\* success, message, error, status are members of the root object;
\* dataSuccessful and statusMessage are data.successful and
\* data.statusMessage; orderId is an identifier member at any depth the
\* verifier searches. "absent" and <<>> stand for a member that is missing.
JsonObject(success, dataSuccessful, statusMessage, message, error, status, orderId) ==
    [kind |-> "json", success |-> success, dataSuccessful |-> dataSuccessful,
     statusMessage |-> statusMessage, message |-> message, error |-> error,
     status |-> status, orderId |-> orderId]

Json(dataSuccessful, statusMessage, message, orderId) ==
    JsonObject("absent", dataSuccessful, statusMessage, message, <<>>, <<>>,
               orderId)

JsonParse(content) ==
    IF content.kind = "json" THEN Return(content)
    ELSE Throw(<<"unexpected", "token">>)

\* content.startsWith('Error:')
StartsWithError(content) ==
    content.kind = "text" /\ content.words # <<>> /\ content.words[1] = "Error:"

\* a content that is the empty string is falsy
Empty(content) == content.kind = "text" /\ content.words = <<>>

\* a verifier that looks for an identifier or a status first
parseOrderSuccessIdFirst(parsed) ==
    \/ parsed.orderId # "absent"
    \/ Test(parsed.status, {"placed", "confirmed", "success", "complete"})
    \/ parsed.dataSuccessful = "true"

\* lines 155-181
parseOrderSuccess(parsed) ==
    IF parsed.dataSuccessful = "false" THEN FALSE
    ELSE IF \/ Test(parsed.statusMessage,
                    {"error", "fail", "unable", "couldn't", "invalid"})
            \/ TestNext(parsed.statusMessage, "not", "accepting")
         THEN FALSE
    ELSE IF \/ parsed.error # <<>>
            \/ Test(parsed.message, {"fail", "error", "unable", "couldn't", "invalid"})
         THEN FALSE
    ELSE \/ parsed.orderId # "absent"
         \/ Test(parsed.status, {"placed", "confirmed", "success", "complete"})

\* a run of 200 characters in which no expression of the code matches
Run200 == "(200 characters)"

\* str.slice(0, 200): every other text of the model is shorter than 200
\* characters, so the slice ends where the first run begins
Slice200(words) ==
    IF \E i \in 1..Len(words) : words[i] = Run200
    THEN LET first == CHOOSE i \in 1..Len(words) :
                        /\ words[i] = Run200
                        /\ \A j \in 1..(i - 1) : words[j] # Run200
         IN SubSeq(words, 1, first - 1)
    ELSE words

\* first.?second: the two words with one space between them
TestAdjacent(text, first, second) ==
    \E i \in 1..(Len(text) - 1) : text[i] = first /\ text[i + 1] = second

\* a text verifier that looks for failure words in the whole text
parseOrderSuccessFromTextWhole(content) ==
    /\ ~Test(content.words,
             {"Error:", "error", "failed", "unable", "couldn't", "invalid"})
    /\ Test(content.words, {"placed", "success", "confirmed"})

\* lines 184-188
parseOrderSuccessFromText(content) ==
    IF Empty(content) THEN FALSE
    ELSE IF Test(Slice200(content.words),
                 {"Error:", "error", "failed", "unable", "couldn't", "invalid"})
         THEN FALSE
    ELSE \/ Test(content.words, {"placed", "success", "confirmed"})
         \/ TestAdjacent(content.words, "order", "id")

(***************************************************************************)
(* Tool names of the loop, and ORDER_TOOL_PATTERN (line 150).              *)
(***************************************************************************)
OrderToolLiterals ==
    {<<"p", "l", "a", "c", "e", "_", "o", "r", "d", "e", "r">>,
     <<"p", "l", "a", "c", "e", "_", "i", "n", "s", "t", "a", "m", "a", "r", "t", "_", "o", "r", "d", "e", "r">>,
     <<"b", "o", "o", "k", "_", "t", "a", "b", "l", "e">>,
     <<"c", "h", "e", "c", "k", "o", "u", "t">>,
     <<"c", "o", "n", "f", "i", "r", "m", "_", "o", "r", "d", "e", "r">>,
     <<"p", "l", "a", "c", "e", "_", "f", "o", "o", "d", "_", "o", "r", "d", "e", "r">>}

ORDER_TOOL_PATTERN(name) == \E literal \in OrderToolLiterals : Contains(name, literal)

\* the tool_use blocks of one response, in order
ToolRequests ==
    {<<>>, <<PlaceFoodOrder>>, <<SearchRestaurants>>, <<Checkout>>,
     <<SearchRestaurants, PlaceFoodOrder>>, <<PlaceFoodOrder, SearchRestaurants>>}

StopReasons == {"end_turn", "tool_use", "max_tokens"}

\* the text blocks of one response, joined and trimmed
ModelTexts ==
    {<<>>,
     <<"here", "are", "the", "restaurants">>,
     <<"your", "order", "has", "been", "placed">>}

Responses == [stop_reason : StopReasons, text : ModelTexts, toolUses : ToolRequests]

\* what tools/call can answer with
ToolContents ==
    {Json("true", <<>>, <<"order", "placed">>, "id1"),
     Json("false", <<>>, <<"order", "placed">>, "absent"),
     Json("false", <<"restaurant", "not", "accepting", "orders">>, <<>>, "absent"),
     Json("absent", <<>>, <<>>, "absent"),
     PlainText(<<"Error:", "upstream", "timeout">>),
     PlainText(<<"order", "placed">>)}

\* messages of the errors callTool throws after it resolved the name:
\* a failed handshake, an error object of the endpoint, a body that is not JSON
HandshakeFailed == <<"initialize", "failed:", "401">>

CallFailures ==
    {HandshakeFailed,
     <<"session", "expired">>,
     <<"tools/call", "invalid", "json:">>}

\* a callTool that sends its request again when the answer cannot be used
callToolFetchesResend(claudeToolName, settled) ==
    IF getServerAndName(claudeToolName) = None THEN 0
    ELSE IF ~settled.ok /\ settled.message = HandshakeFailed THEN 0
    ELSE IF ~settled.ok THEN 2
    ELSE 1

\* callTool lines 175-189: the number of tools/call requests behind an
\* outcome. An unknown name throws at line 176 and a failed handshake at
\* line 179, both before the one fetch of line 180
callToolFetches(claudeToolName, settled) ==
    IF getServerAndName(claudeToolName) = None THEN 0
    ELSE IF ~settled.ok /\ settled.message = HandshakeFailed THEN 0
    ELSE 1

\* callTool (part_000 lines 174-206): returns a string or throws
callToolOutcomes(claudeToolName) ==
    IF getServerAndName(claudeToolName) = None
    THEN {UnknownTool(claudeToolName)}
    ELSE {Throw(m) : m \in CallFailures} \cup {Return(c) : c \in ToolContents}

(***************************************************************************)
(* The fixed texts of chatWithClaudeMcp.                                   *)
(***************************************************************************)
NotGoneThrough ==
    <<"i", "wasn't", "able", "to", "complete", "the", "order",
      "the", "request", "didn't", "go", "through">>

CouldNotComplete == <<"i", "couldn't", "complete", "the", "order">>

PleaseCheck ==
    <<"\n", "\n", "please", "check", "your", "delivery", "address", "and",
      "try", "again", "or", "contact", "swiggy", "support", "if", "the",
      "issue", "persists">>

NotCalled ==
    <<"i", "wasn't", "able", "to", "complete", "the", "order",
      "the", "order", "tool", "wasn't", "called", "please", "add", "items",
      "to", "your", "cart", "first", "then", "try", "placing", "the", "order",
      "again", "check", "the", "logs", "for", "details">>

limitMsg ==
    <<"i", "hit", "the", "reply", "limit", "please", "try", "a", "shorter",
      "request", "or", "ask", "again">>

Done == <<"done">>

(***************************************************************************)
(* SpecLoop: one invocation of chatWithClaudeMcp, from the first model     *)
(* invocation on (the catalog is loaded and not empty). A step is the code *)
(* between two awaits: LModel is a response of the model and what the loop *)
(* does with it up to the first callTool; LTool is one callTool settling   *)
(* and what follows it up to the next callTool or model invocation. The    *)
(* session state, which the loop only uses to fill in arguments and which  *)
(* it updates inside a try/catch that swallows everything (lines 313-335), *)
(* is left out.                                                            *)
(***************************************************************************)
maxRounds == 15

\* a loop that runs one round more
RoundGuardInclusive(r) == r <= maxRounds

\* line 192: round < maxRounds
RoundGuard(r) == r < maxRounds

\* a catch that passes the message on without the prefix
ErrorContentBare(message) == PlainText(message)

\* line 299: `Error: ${err?.message || String(err)}`
ErrorContent(message) == PlainText(<<"Error:">> \o message)

\* a run of 300 characters; every other text of the model is shorter
Run300 == "(300 characters)"

\* line 229: msg && typeof msg === 'string' && msg.length < 300, for a member
\* that is missing (<<>>), the empty string (<<"">>) or a text
Usable(msg) ==
    /\ msg # <<>>
    /\ msg # <<"">>
    /\ \A i \in 1..Len(msg) : msg[i] # Run300

\* lines 223-228: the first member that is not missing
FirstPresent(members) ==
    IF \E i \in 1..Len(members) : members[i] # <<>>
    THEN members[CHOOSE i \in 1..Len(members) :
                    /\ members[i] # <<>>
                    /\ \A j \in 1..(i - 1) : members[j] = <<>>]
    ELSE <<>>

\* the members with the root's message first
MessageMembersRootFirst(parsed) == <<parsed.message, parsed.statusMessage, parsed.error>>

\* the members in the order of lines 224-228
MessageMembers(parsed) == <<parsed.statusMessage, parsed.message, parsed.error>>

\* lines 218-243: the reply that replaces an unbacked claim of success
OverrideText(last) ==
    LET hasContent == last # None /\ ~Empty(last.content)
        errContent == IF hasContent THEN last.content ELSE PlainText(<<>>)
        parsed == JsonParse(errContent)
        msg == IF ~parsed.ok THEN <<>>
               ELSE FirstPresent(MessageMembers(parsed.value))
        userMsg == IF Usable(msg) THEN CouldNotComplete \o msg
                   ELSE IF StartsWithError(errContent)
                        THEN CouldNotComplete \o errContent.words
                   ELSE NotGoneThrough
    IN IF hasContent THEN userMsg \o PleaseCheck ELSE NotCalled

\* the content of a message: its text, its tool_use blocks, its tool_result
\* blocks
Blocks(text, uses, results) ==
    [text |-> text, toolUses |-> uses, toolResults |-> results]

Reply(text, stopReason) == Return([text |-> text, stopReason |-> stopReason])

\* lines 212-251: the reply to an end_turn response with text
EndTurnReply(text, last) ==
    IF claimsSuccess(text) /\ ~(last # None /\ last.success)
    THEN Reply(OverrideText(last), "end_turn")
    ELSE Reply(text, "end_turn")

\* what the three listToolsForServer calls of one catalog load settle to
LoadSettled ==
    {results \in [Servers -> {Throw(<<"fetch failed">>), Return(<<>>),
                              Return(<<NamespacedTool("swiggy_food", <<"a">>)>>)}] :
        \A s \in Servers \ {"swiggy_food"} : results[s].ok => results[s].value = <<>>}

\* getClaudeTools(token) on empty caches (lines 72-86, listAllTools 143-169)
getClaudeToolsFresh(token, results) ==
    IF TokenMissing(token)
    THEN LoadFailed(<<"SWIGGY_AUTH_TOKEN is missing or empty.">>)
    ELSE LET raw == listAllToolsSettled(results)
         IN IF raw.ok THEN Return(Map(mcpToolToClaudeTool, raw.value))
            ELSE LoadFailed(raw.message)

NoToolsReturned ==
    <<"Swiggy tools could not be loaded. ",
      "No tools returned from MCP servers. Check SWIGGY_AUTH_TOKEN.">>

\* a loop that goes on with whatever catalog it got
CatalogUsableIfLoaded(tools) == tools.ok

\* lines 107-122: the loop goes on only with a catalog that has tools
CatalogUsable(tools) == tools.ok /\ tools.value # <<>>

LoopInit ==
    /\ lPc = "load"
    /\ round = 0
    /\ toolUses = <<>>
    /\ useIdx = 0
    /\ toolResults = <<>>
    /\ lastOrderToolResult = None
    /\ lastMessage = None
    /\ lResult = None
    /\ modelCalls = 0
    /\ allToolUse = TRUE
    /\ outcome = None
    /\ lTools = None
    /\ callsSent = <<>>
    /\ turnsPushed = 0
    /\ VerifyIdle
    /\ BackfillIdle
    /\ SessionIdle
    /\ ChatIdle
    /\ ConnIdle
    /\ NamesIdle
    /\ ListAllIdle
    /\ TasksIdle
    /\ CacheIdle
    /\ CallersIdle

\* lines 105-148: getClaudeTools settles; without tools the invocation ends
\* here, otherwise the transcript is set up for the first round
LLoad ==
    /\ lPc = "load"
    /\ \E token \in CatalogCredentials, results \in LoadSettled :
        LET tools == getClaudeToolsFresh(token, results)
        IN /\ lTools' = tools
           /\ IF CatalogUsable(tools)
              THEN /\ lPc' = "model"
                   /\ lastMessage' =
                        [role |-> "user",
                         content |-> Blocks(<<"user", "message">>, <<>>, <<>>)]
                   /\ UNCHANGED lResult
              ELSE /\ lPc' = "done"
                   /\ lResult' = Reply(IF tools.ok THEN NoToolsReturned
                                       ELSE tools.message, "end_turn")
                   /\ UNCHANGED lastMessage
    /\ UNCHANGED <<round, toolUses, useIdx, toolResults, lastOrderToolResult,
                   modelCalls, allToolUse, outcome, callsSent, turnsPushed,
                   LoopFrame>>

\* lines 193-264: the model answers
LModel ==
    /\ lPc = "model"
    /\ \E response \in Responses :
        LET text == response.text
            asksForTool == response.stop_reason = "tool_use"
                               /\ response.toolUses # <<>>
        IN /\ modelCalls' = modelCalls + 1
           /\ allToolUse' = (allToolUse /\ asksForTool)
           /\ IF response.stop_reason = "end_turn" /\ text # <<>>
              THEN /\ lResult' = EndTurnReply(text, lastOrderToolResult)
                   /\ lPc' = "done"
                   /\ UNCHANGED <<lastMessage, toolUses, useIdx, callsSent,
                                   turnsPushed>>
              ELSE IF ~asksForTool
              THEN /\ lResult' = Reply(IF text # <<>> THEN text ELSE Done,
                                       response.stop_reason)
                   /\ lPc' = "done"
                   /\ UNCHANGED <<lastMessage, toolUses, useIdx, callsSent,
                                   turnsPushed>>
              ELSE /\ lastMessage' = [role |-> "assistant",
                                      content |-> Blocks(text, response.toolUses,
                                                         <<>>)]
                   /\ turnsPushed' = turnsPushed + 1
                   /\ toolUses' = response.toolUses
                   /\ useIdx' = 1
                   /\ callsSent' = [i \in 1..Len(response.toolUses) |-> 0]
                   /\ lPc' = "tools"
                   /\ UNCHANGED lResult
    /\ UNCHANGED <<round, toolResults, lastOrderToolResult, outcome, lTools,
                   LoopFrame>>

\* line 193: the request to the model fails, and the rejection leaves
\* chatWithClaudeMcp
LModelRejects ==
    /\ lPc = "model"
    /\ modelCalls' = modelCalls + 1
    /\ allToolUse' = FALSE
    /\ lResult' = Throw(<<"api", "error">>)
    /\ lPc' = "done"
    /\ UNCHANGED <<round, toolUses, useIdx, toolResults, lastOrderToolResult,
                   lastMessage, outcome, lTools, callsSent, turnsPushed, LoopFrame>>

\* lines 277-305: content and lastOrderToolResult after callTool settled
ToolContent(settled) ==
    IF settled.ok THEN settled.value ELSE ErrorContent(settled.message)

OrderToolResult(name, settled) ==
    LET content == ToolContent(settled)
        toolSucceeded == settled.ok /\ ~StartsWithError(content)
        parsed == JsonParse(content)
    IN [toolName |-> name,
        success |-> IF ~toolSucceeded THEN FALSE
                    ELSE IF parsed.ok THEN parseOrderSuccess(parsed.value)
                    ELSE parseOrderSuccessFromText(content),
        content |-> content]

\* a loop that records an order tool's outcome only when callTool returned
RetainedOnReturn(last, name, settled) ==
    IF ORDER_TOOL_PATTERN(name) /\ settled.ok THEN OrderToolResult(name, settled)
    ELSE last

\* lines 283-305: lastOrderToolResult after the call of the tool `name`
\* settled, in the try branch (line 285) as in the catch branch (line 303)
Retained(last, name, settled) ==
    IF ORDER_TOOL_PATTERN(name) THEN OrderToolResult(name, settled)
    ELSE last

\* a turn that keeps only the result of the last request
ResultsTurnLastOnly(results) ==
    [role |-> "user",
     content |-> Blocks(<<>>, <<>>, <<results[Len(results)]>>)]

\* lines 338-341: the turn that holds the tool results of the round
ResultsTurn(results) ==
    [role |-> "user", content |-> Blocks(<<>>, <<>>, results)]

\* lines 268-342: the callTool of toolUses[useIdx] settles
LTool ==
    /\ lPc = "tools"
    /\ \E settled \in callToolOutcomes(toolUses[useIdx]) :
        LET use == toolUses[useIdx]
            results == Append(toolResults,
                              [type |-> "tool_result", tool_use_id |-> useIdx,
                               content |-> ToolContent(settled)])
        IN /\ outcome' = settled
           /\ callsSent' = [callsSent EXCEPT ![useIdx] =
                                @ + callToolFetches(use, settled)]
           /\ lastOrderToolResult' = Retained(lastOrderToolResult, use, settled)
           /\ IF useIdx < Len(toolUses)
              THEN /\ useIdx' = useIdx + 1
                   /\ toolResults' = results
                   /\ UNCHANGED <<lPc, round, lastMessage, lResult, turnsPushed>>
              ELSE /\ lastMessage' = ResultsTurn(results)
                   /\ turnsPushed' = turnsPushed + 1
                   /\ toolResults' = <<>>
                   /\ useIdx' = 0
                   /\ round' = round + 1
                   /\ IF RoundGuard(round + 1)
                      THEN /\ lPc' = "model"
                           /\ UNCHANGED lResult
                      ELSE /\ lPc' = "done"
                           /\ lResult' = Reply(limitMsg, "end_turn")
    /\ UNCHANGED <<toolUses, modelCalls, allToolUse, lTools, LoopFrame>>

LoopNext ==
    \/ LLoad
    \/ LModel
    \/ LModelRejects
    \/ LTool

SpecLoop == LoopInit /\ [][LoopNext]_vars

\* every await of the loop settles: the model answers or the request fails,
\* a tool call returns or throws
SpecLoopFair == SpecLoop /\ WF_vars(LoopNext)

(***************************************************************************)
(* C1: whatever path chatWithClaudeMcp returns by, the text it returns     *)
(* claims that an order or booking was placed or confirmed only if the     *)
(* last order-tool outcome recorded in this invocation exists and is       *)
(* marked successful.                                                      *)
(***************************************************************************)
C1_SuccessClaimIsBacked ==
    (lPc = "done" /\ lResult.ok /\ claimsSuccess(lResult.value.text))
        => (lastOrderToolResult # None /\ lastOrderToolResult.success)

(***************************************************************************)
(* C2: if the model answers every invocation with stop reason tool_use and *)
(* at least one tool request, chatWithClaudeMcp ends after exactly 15      *)
(* model invocations, never fewer and never a 16th, and returns the fixed  *)
(* reply-limit message.                                                    *)
(***************************************************************************)
RoundCeiling ==
    /\ modelCalls <= maxRounds
    /\ (lPc = "done" /\ allToolUse /\ modelCalls > 0) =>
            /\ modelCalls = maxRounds
            /\ lResult = Reply(limitMsg, "end_turn")
    /\ (lPc = "done" /\ lResult = Reply(limitMsg, "end_turn")) => allToolUse

C2_EndsAtRoundFifteen == [](RoundCeiling) /\ <>(lPc = "done")

C2_Witness ==
    /\ lPc = "done"
    /\ allToolUse
    /\ modelCalls = 15
    /\ round = 15
    /\ lResult = Reply(limitMsg, "end_turn")

(***************************************************************************)
(* C10: a tool execution that fails (unknown tool, failed handshake, error *)
(* object of the endpoint, malformed response) does not make               *)
(* chatWithClaudeMcp throw or stop: the failure becomes a tool result      *)
(* whose text starts with "Error:", that result is in the result turn of   *)
(* the same round, and the loop goes on to the next tool request and then  *)
(* to the next model invocation (which exists unless the round was the     *)
(* last one the ceiling allows, where the reply-limit message is returned).*)
(***************************************************************************)
C10_ToolFailureIsFedBack ==
    [][(lPc = "tools" /\ ~outcome'.ok) =>
            LET more == useIdx < Len(toolUses)
                pushed == IF more THEN toolResults'[useIdx]
                          ELSE lastMessage'.content.toolResults[useIdx]
            IN /\ pushed.tool_use_id = useIdx
               /\ StartsWithError(pushed.content)
               /\ Slice(pushed.content.words, 1) = outcome'.message
               /\ IF more
                  THEN /\ lPc' = "tools"
                       /\ useIdx' = useIdx + 1
                       /\ Len(toolResults') = useIdx
                       /\ lResult' = None
                  ELSE /\ lastMessage'.role = "user"
                       /\ Len(lastMessage'.content.toolResults) = Len(toolUses)
                       /\ IF round + 1 < maxRounds
                          THEN lPc' = "model" /\ lResult' = None
                          ELSE lResult' = Reply(limitMsg, "end_turn")]_vars

\* a tool call failed, its error is in the result turn, and the model has
\* been invoked again with it
C10_Witness ==
    /\ lPc = "tools"
    /\ round > 0
    /\ useIdx = 1
    /\ lastMessage.role = "assistant"
    /\ outcome # None
    /\ ~outcome.ok
    /\ modelCalls = round + 1
    /\ lResult = None

(***************************************************************************)
(* SpecVerify: the outcome verifier on its own. An order tool returns one  *)
(* content out of VerifierContents, and the loop records its outcome as in *)
(* lines 282-297.                                                          *)
(***************************************************************************)
VerifierObjects ==
    {JsonObject(success, dataSuccessful, statusMessage, message, error, status,
                orderId) :
        success \in {"absent", "true", "false"},
        dataSuccessful \in {"absent", "true", "false"},
        statusMessage \in {<<>>, <<"">>, <<"restaurant", "closed">>,
                           <<"unable", "to", "place", "order">>,
                           <<"restaurant", "not", "accepting", "orders">>,
                           <<"restaurant", "closed", Run300>>},
        message \in {<<>>, <<"order", "placed">>, <<"payment", "failed">>},
        error \in {<<>>, <<"declined">>},
        status \in {<<>>, <<"confirmed">>},
        orderId \in {"absent", "id1"}}

VerifierTexts ==
    {PlainText(<<>>),
     PlainText(<<"your", "order", "#4821", "has", "been", "placed">>),
     PlainText(<<"Error:", "payment", "declined">>),
     PlainText(<<"payment", "declined">>),
     PlainText(<<"order", "id", "4821">>),
     PlainText(<<"unable", "to", "place", "order">>),
     PlainText(<<"booking", "confirmed">>),
     PlainText(<<"order", "placed", "\n", "payment", "failed">>),
     PlainText(<<"order", "placed", Run200, "payment", "failed">>),
     PlainText(<<"payment", "failed", Run200, "order", "placed">>),
     PlainText(<<Run200, "order", "confirmed">>),
     PlainText(<<Run200, "thank", "you">>)}

VerifierContents == VerifierObjects \cup VerifierTexts

\* the order tool returned vContent, or no order tool was called
VerifyInit ==
    /\ \/ vPc = "called" /\ vContent \in VerifierContents
       \/ vPc = "uncalled" /\ vContent = None
    /\ vOutcome = None
    /\ vText = <<>>
    /\ vReply = None
    /\ ConnIdle
    /\ NamesIdle
    /\ ListAllIdle
    /\ TasksIdle
    /\ CacheIdle
    /\ CallersIdle
    /\ LoopIdle
    /\ BackfillIdle
    /\ SessionIdle
    /\ ChatIdle

\* lines 282-297 for a place_food_order call that returned vContent
VRecord ==
    /\ vPc = "called"
    /\ vOutcome' = OrderToolResult(PlaceFoodOrder, Return(vContent))
    /\ vPc' = "recorded"
    /\ UNCHANGED <<vContent, vText, vReply, VerifyFrame>>

\* lines 212-251: the model then ends its turn with a text
VEndTurn ==
    /\ vPc \in {"recorded", "uncalled"}
    /\ \E text \in ModelTexts \ {<<>>} :
        /\ vText' = text
        /\ vReply' = EndTurnReply(text, vOutcome)
    /\ vPc' = "replied"
    /\ UNCHANGED <<vContent, vOutcome, VerifyFrame>>

VerifyNext ==
    \/ VRecord
    \/ VEndTurn

SpecVerify == VerifyInit /\ [][VerifyNext]_vars

\* line 162 on data.statusMessage
StatusSaysFailure(content) ==
    \/ Test(content.statusMessage, {"error", "fail", "unable", "couldn't", "invalid"})
    \/ TestNext(content.statusMessage, "not", "accepting")

(***************************************************************************)
(* C11: for a JSON result of an order tool, if data.successful is false or *)
(* data.statusMessage has failure vocabulary, the recorded outcome is      *)
(* failed, whatever the root's success and message say and whether or not  *)
(* an identifier is present.                                               *)
(***************************************************************************)
C11_StructuralFailureWins ==
    (/\ vPc = "recorded"
     /\ vContent.kind = "json"
     /\ (vContent.dataSuccessful = "false" \/ StatusSaysFailure(vContent)))
        => /\ vOutcome.success = FALSE
           /\ vOutcome.content = vContent

\* the result of the example: data.successful false under a root that says
\* success, with an identifier
C11_Witness ==
    /\ vPc = "recorded"
    /\ vContent = JsonObject("true", "false", <<"restaurant", "closed">>,
                             <<"order", "placed">>, <<>>, <<"confirmed">>, "id1")
    /\ vOutcome.success = FALSE

\* the failure words of line 186 occur in the first 200 characters
FailureInLeadingPortion(words) ==
    \E i \in 1..Len(words) :
        /\ \A j \in 1..i : words[j] # Run200
        /\ words[i] \in {"Error:", "error", "failed", "unable", "couldn't", "invalid"}

\* the success words of line 187 occur somewhere
SuccessAnywhere(words) ==
    \/ \E i \in 1..Len(words) : words[i] \in {"placed", "successfully", "confirmed"}
    \/ \E i \in 1..(Len(words) - 1) : words[i] = "order" /\ words[i + 1] = "id"

OverrideFired ==
    /\ vPc = "replied"
    /\ claimsSuccess(vText)
    /\ ~(vOutcome # None /\ vOutcome.success)

\* the retained content is JSON with data.statusMessage and a root message
BothMessages ==
    /\ vContent # None
    /\ vContent.kind = "json"
    /\ vContent.statusMessage # <<>>
    /\ vContent.message # <<>>

BuiltFrom(member) == CouldNotComplete \o member \o PleaseCheck

(***************************************************************************)
(* C13 (as amended): when the override fires the returned text is not the  *)
(* model's text; and when the retained content is JSON with both           *)
(* data.statusMessage and a root message, the substituted text is never    *)
(* built from the root message: it is built from data.statusMessage when   *)
(* that is a non-empty string shorter than 300 characters, and is the      *)
(* fixed failure text otherwise.                                           *)
(***************************************************************************)
C13_OverridePrefersStatusMessage ==
    OverrideFired =>
        /\ vReply.ok
        /\ vReply.value.stopReason = "end_turn"
        /\ vReply.value.text # vText
        /\ BothMessages =>
            /\ vReply.value.text # BuiltFrom(vContent.message)
            /\ vReply.value.text =
                  IF Usable(vContent.statusMessage)
                  THEN BuiltFrom(vContent.statusMessage)
                  ELSE NotGoneThrough \o PleaseCheck

C13_Witness ==
    /\ OverrideFired
    /\ BothMessages
    /\ vContent.success = "true"
    /\ vContent.message = <<"order", "placed">>
    /\ vReply.value.text = BuiltFrom(<<"restaurant", "closed">>)

(***************************************************************************)
(* C13: when the override fires the returned text is never the model's     *)
(* text; and when the retained content is JSON with both                   *)
(* data.statusMessage and a root message, the substituted text is built    *)
(* from data.statusMessage, not from the root message.                     *)
(***************************************************************************)
C13_OverrideBuiltFromStatusMessage ==
    OverrideFired =>
        /\ vReply.value.text # vText
        /\ BothMessages =>
            /\ vReply.value.text # BuiltFrom(vContent.message)
            /\ vReply.value.text = BuiltFrom(vContent.statusMessage)

\* an initialize response that is accepted and carries no session id
StatelessResponse == [kind |-> "response", ok |-> TRUE, error |-> "none",
                      sessionId |-> "null"]

(***************************************************************************)
(* C14: a handshake whose initialize response carries no session id        *)
(* succeeds and yields a cached connection without session id; and every   *)
(* tools/list and tools/call request carries the Mcp-Session-Id header if  *)
(* and only if the connection it is sent on has a session id.              *)
(***************************************************************************)
SessionHeaderIffSession ==
    /\ \A b \in BaseUrls, token \in Tokens :
            HandshakeOutcome(b, token, StatelessResponse)
                = Return([sessionId |-> "null", baseUrl |-> b, token |-> token])
    /\ \A t \in Tasks :
            tPc[t] = "request" =>
                /\ tRequest[t].method = tOp[t].method
                /\ tRequest[t].url = tConn[t].baseUrl
                /\ (tRequest[t].headers.McpSessionId # "absent")
                        <=> (tConn[t].sessionId # "null")
                /\ tConn[t].sessionId # "null"
                        => tRequest[t].headers.McpSessionId = tConn[t].sessionId

C14_StatelessConnection ==
    /\ []SessionHeaderIffSession
    /\ [][\A t \in Tasks :
            (tPc[t] = "init" /\ tPc'[t] = "request") =>
                /\ connections'[Url(t)] = tConn'[t]
                /\ tConn'[t].sessionId = "null"
                /\ tRequest'[t].headers.McpSessionId = "absent"]_vars

\* a handshake without session id left a cached connection, and a later
\* operation sends its request on it without the header
C14_Witness ==
    \E t \in Tasks :
        /\ tPc[t] = "request"
        /\ tHit[t]
        /\ connections[Url(t)] = tConn[t]
        /\ tConn[t].sessionId = "null"
        /\ tRequest[t].headers.McpSessionId = "absent"
        /\ tRequest[t].headers.Authorization = tConn[t].token

(***************************************************************************)
(* C15: the model is invoked only after a catalog with at least one tool   *)
(* was obtained: when loading the catalog fails (every endpoint fails, no  *)
(* credential) or yields no tool, chatWithClaudeMcp returns a message with *)
(* stop reason end_turn, does not throw, and has not invoked the model.    *)
(***************************************************************************)
C15_NoModelWithoutCatalog ==
    /\ modelCalls > 0 => (lTools.ok /\ lTools.value # <<>>)
    /\ (lPc \in {"model", "tools", "done"}
            /\ ~(lTools.ok /\ lTools.value # <<>>)) =>
        /\ lPc = "done"
        /\ modelCalls = 0
        /\ lResult.ok
        /\ lResult.value.stopReason = "end_turn"
        /\ lResult.value.text =
              IF lTools.ok THEN NoToolsReturned ELSE lTools.message
        /\ StartsWith(lResult.value.text, <<"Swiggy tools could not be loaded. ">>)

\* every endpoint failed: the reply names the failure, and no model call
C15_Witness ==
    /\ lPc = "done"
    /\ ~lTools.ok
    /\ Contains(lTools.message, <<"Could not load any Swiggy tools. ">>)
    /\ lResult = Reply(lTools.message, "end_turn")
    /\ modelCalls = 0

(***************************************************************************)
(* SpecBackfill: lines 269-281 for one requested invocation. The input of  *)
(* the request and the session state hold identifiers under their two      *)
(* spellings; "absent" is a member that is missing or null (and, in the    *)
(* session state, any falsy value).                                        *)
(***************************************************************************)
IdMembers ==
    {"addressId", "address_id", "restaurantId", "restaurant_id", "cartId", "cart_id"}

ToolInputs == [IdMembers -> {"absent", "fromModel"}]

SessionStates ==
    [addressId : {"absent", "ctxAddress"},
     restaurantId : {"absent", "ctxRestaurant"},
     cartId : {"absent", "ctxCart"}]

\* an invocation that passes the model's input on as it is
BackfillInputNever(name, input, ctx) == input

\* lines 269-276: the arguments callTool gets
BackfillInput(name, input, ctx) ==
    IF ~ORDER_TOOL_PATTERN(name) THEN input
    ELSE LET withAddress ==
                IF /\ ctx.addressId # "absent"
                   /\ (input["addressId"] = "absent" \/ input["address_id"] = "absent")
                THEN [input EXCEPT !["addressId"] = ctx.addressId]
                ELSE input
             withRestaurant ==
                IF /\ ctx.restaurantId # "absent"
                   /\ (withAddress["restaurantId"] = "absent"
                          \/ withAddress["restaurant_id"] = "absent")
                THEN [withAddress EXCEPT !["restaurantId"] = ctx.restaurantId]
                ELSE withAddress
         IN IF /\ ctx.cartId # "absent"
               /\ withRestaurant["cartId"] = "absent"
               /\ withRestaurant["cart_id"] = "absent"
            THEN [withRestaurant EXCEPT !["cartId"] = ctx.cartId]
            ELSE withRestaurant

BackfillInit ==
    /\ bPc = "requested"
    /\ bName \in {PlaceFoodOrder, SearchRestaurants, Checkout}
    /\ bInput \in ToolInputs
    /\ bCtx \in SessionStates
    /\ bArgs = None
    /\ SessionIdle
    /\ ChatIdle
    /\ ConnIdle
    /\ NamesIdle
    /\ ListAllIdle
    /\ TasksIdle
    /\ CacheIdle
    /\ CallersIdle
    /\ LoopIdle
    /\ VerifyIdle

\* lines 269-281: callTool(use.name, input, token) is called
BCallTool ==
    /\ bPc = "requested"
    /\ bArgs' = BackfillInput(bName, bInput, bCtx)
    /\ bPc' = "called"
    /\ UNCHANGED <<bName, bInput, bCtx, BackfillFrame>>

BackfillNext == BCallTool

SpecBackfill == BackfillInit /\ [][BackfillNext]_vars

\* the arguments have the session state's value for the identifier
Backfilled(id) == bArgs[id] = bCtx[id]

(***************************************************************************)
(* C16 (as amended): for a requested invocation whose name matches the     *)
(* order-tool pattern, addressId and restaurantId are passed to callTool   *)
(* with the session state's value whenever the model omitted them and the  *)
(* session state holds them; cartId is, whenever the session state holds   *)
(* it and the model supplied neither cartId nor cart_id.                   *)
(***************************************************************************)
C16_BackfillFromSession ==
    (bPc = "called" /\ ORDER_TOOL_PATTERN(bName)) =>
        /\ (bInput["addressId"] = "absent" /\ bCtx.addressId # "absent")
                => Backfilled("addressId")
        /\ (bInput["restaurantId"] = "absent" /\ bCtx.restaurantId # "absent")
                => Backfilled("restaurantId")
        /\ (/\ bInput["cartId"] = "absent"
            /\ bInput["cart_id"] = "absent"
            /\ bCtx.cartId # "absent") => Backfilled("cartId")
        /\ \A id \in {"address_id", "restaurant_id", "cart_id"} :
                bArgs[id] = bInput[id]

\* the model gave no identifier at all and the session state holds all three
C16_Witness ==
    /\ bPc = "called"
    /\ bName = PlaceFoodOrder
    /\ bInput = [id \in IdMembers |-> "absent"]
    /\ bArgs["addressId"] = "ctxAddress"
    /\ bArgs["restaurantId"] = "ctxRestaurant"
    /\ bArgs["cartId"] = "ctxCart"

(***************************************************************************)
(* C16: for a requested invocation whose name matches the order-tool       *)
(* pattern, each of addressId, restaurantId and cartId that the model      *)
(* omitted and that the session state holds is passed to callTool with the *)
(* session state's value.                                                  *)
(***************************************************************************)
C16_BackfillEachOmitted ==
    (bPc = "called" /\ ORDER_TOOL_PATTERN(bName)) =>
        \A id \in {"addressId", "restaurantId", "cartId"} :
            (bInput[id] = "absent" /\ bCtx[id] # "absent") => Backfilled(id)

(***************************************************************************)
(* C17: each tool request of the model causes at most one tools/call       *)
(* request to an endpoint, and the loop goes on to another request (or     *)
(* ends the round) after every call, failed or not: no call is sent again  *)
(* within the round.                                                       *)
(***************************************************************************)
C17_AtMostOneToolsCall ==
    /\ [](\A i \in DOMAIN callsSent : callsSent[i] <= 1)
    /\ [][lPc = "tools" => useIdx' # useIdx]_vars

\* a tools/call request was answered with an error, and the loop is about
\* to execute the next request of the round
C17_Witness ==
    /\ lPc = "tools"
    /\ useIdx = 2
    /\ outcome = Throw(<<"session", "expired">>)
    /\ callsSent = <<1, 0>>

\* the call went to the endpoints: it passed the cache test and the token check
WentToEndpoints(c) == gPc[c] # "idle" /\ gFresh[c] /\ ~TokenMissing(gToken[c])

(***************************************************************************)
(* C18: the catalog request that follows clearCaches finds both caches     *)
(* empty: it calls listAllTools afresh, and on every endpoint it reaches   *)
(* it finds no cached connection, so that each of its tools/list requests  *)
(* follows a handshake of its own and carries its own credential.          *)
(***************************************************************************)
C18_EmptyAfterClear ==
    \A c \in Callers :
        (gPc[c] # "idle" /\ gAfterClear[c]) =>
            /\ gSnap[c].cache = None
            /\ gFresh[c]
            /\ WentToEndpoints(c) =>
                /\ gCached[c] = {}
                /\ gListTokens[c] \subseteq {gToken[c]}

\* the name starts with none of the endpoint prefixes
NoPrefixMatches(claudeToolName) ==
    \A s \in Servers : ~StartsWith(claudeToolName, SESSION_PREFIX[s])

\* the task is a callTool whose name starts with none of the prefixes
UnknownCall(t) ==
    /\ tOp[t] # None
    /\ tOp[t].method = "tools/call"
    /\ NoPrefixMatches(tOp[t].tool)

(***************************************************************************)
(* C19: a callTool whose name starts with none of the endpoint prefixes    *)
(* fails in the step it is called in with the unknown-tool error: it       *)
(* sends no initialize request and no tools/call request, never awaits an  *)
(* endpoint, and leaves the connection cache as it was.                    *)
(***************************************************************************)
C19_UnknownToolFailsEarly ==
    /\ [](\A t \in Tasks :
            UnknownCall(t) =>
                /\ tPc[t] = "done"
                /\ tResult[t] = UnknownTool(tOp[t].tool)
                /\ tRequest[t] = None
                /\ tConn[t] = None
                /\ ~tHit[t])
    /\ [][\A t \in Tasks :
            (tPc[t] = "idle" /\ UnknownCall(t)') =>
                /\ connections' = connections
                /\ initCount' = initCount]_vars

\* the unknown name was called with a usable token while the cache was empty
\* for some endpoint, after another operation had made a connection
C19_Witness ==
    \E t, u \in Tasks :
        /\ UnknownCall(t)
        /\ tOp[t].tool = Checkout
        /\ tOp[t].token \in Tokens
        /\ tPc[t] = "done"
        /\ tResult[t] = UnknownTool(Checkout)
        /\ u < t /\ tPc[u] = "request"
        /\ \E b \in BaseUrls : connections[b] = None

\* the turns appended so far are two per finished round, and the assistant's
\* turn of the round whose tools are being executed
TwoTurnsPerRound ==
    /\ lPc = "model" => (turnsPushed = 2 * round /\ lastMessage.role = "user")
    /\ lPc = "tools" =>
            /\ turnsPushed = 2 * round + 1
            /\ lastMessage.role = "assistant"
            /\ lastMessage.content.toolUses = toolUses
            /\ Len(toolResults) = useIdx - 1

\* the results are one per request, in request order, each with the id of
\* its request (the position of the tool_use block in the response)
ResultPerRequest(results) ==
    /\ Len(results) = Len(toolUses)
    /\ \A i \in 1..Len(results) :
            results[i].type = "tool_result" /\ results[i].tool_use_id = i

(***************************************************************************)
(* C20: a round with tool requests appends exactly two turns: first the    *)
(* assistant's response as it came, with its tool_use blocks; then, after  *)
(* the last tool settled, one user turn with one tool_result per request,  *)
(* in request order, the i-th carrying the id and the content of the i-th  *)
(* request. Nothing is appended in between, and the model is invoked again *)
(* only after the second turn.                                             *)
(***************************************************************************)
C20_TwoTurnsPerToolRound ==
    /\ []TwoTurnsPerRound
    /\ [][/\ (lPc = "model" /\ lPc' = "tools") =>
                /\ turnsPushed' = turnsPushed + 1
                /\ toolUses' # <<>>
                /\ lastMessage'.role = "assistant"
                /\ lastMessage'.content.toolUses = toolUses'
          /\ (lPc = "tools" /\ lPc' = "tools") =>
                /\ turnsPushed' = turnsPushed
                /\ lastMessage' = lastMessage
                /\ modelCalls' = modelCalls
                /\ toolResults' = Append(toolResults,
                        [type |-> "tool_result", tool_use_id |-> useIdx,
                         content |-> ToolContent(outcome')])
          /\ (lPc = "tools" /\ lPc' # "tools") =>
                /\ turnsPushed' = turnsPushed + 1
                /\ modelCalls' = modelCalls
                /\ lastMessage'.role = "user"
                /\ ResultPerRequest(lastMessage'.content.toolResults)
                /\ SubSeq(lastMessage'.content.toolResults, 1, useIdx - 1)
                        = toolResults
                /\ lastMessage'.content.toolResults[useIdx].content
                        = ToolContent(outcome')
          /\ modelCalls' # modelCalls =>
                (lPc = "model" /\ lastMessage.role = "user")]_vars

\* a round with two requests is finished and the model is about to be
\* invoked again
C20_Witness ==
    /\ lPc = "model"
    /\ round = 1
    /\ turnsPushed = 2
    /\ Len(toolUses) = 2
    /\ lastMessage.role = "user"
    /\ Len(lastMessage.content.toolResults) = 2
    /\ lastMessage.content.toolResults[1].tool_use_id = 1
    /\ lastMessage.content.toolResults[2].tool_use_id = 2
    /\ ~outcome.ok

(***************************************************************************)
(* C22: lastOrderToolResult is absent until the invocation executes an     *)
(* order tool; every executed call of an order tool, returned or thrown,   *)
(* replaces it by the outcome of that call (a thrown call is never a       *)
(* success); every call of another tool, and every other step of the       *)
(* loop, leaves it as it is.                                               *)
(***************************************************************************)
C22_RetainsLastOrderOutcome ==
    /\ []((lPc = "load" \/ modelCalls = 0) => lastOrderToolResult = None)
    /\ [][IF lPc = "tools"
          THEN IF \E literal \in OrderToolLiterals :
                        Contains(toolUses[useIdx], literal)
               THEN /\ lastOrderToolResult' # None
                    /\ lastOrderToolResult'.toolName = toolUses[useIdx]
                    /\ lastOrderToolResult'.content = ToolContent(outcome')
                    /\ lastOrderToolResult'.success => outcome'.ok
               ELSE lastOrderToolResult' = lastOrderToolResult
          ELSE lastOrderToolResult' = lastOrderToolResult]_vars

\* an order tool threw, the failure was retained, and the call of another
\* tool that followed in the round left it in place
C22_Witness ==
    /\ lPc = "model"
    /\ round = 1
    /\ toolUses = <<PlaceFoodOrder, SearchRestaurants>>
    /\ outcome.ok
    /\ lastOrderToolResult # None
    /\ lastOrderToolResult.toolName = PlaceFoodOrder
    /\ ~lastOrderToolResult.success
    /\ StartsWithError(lastOrderToolResult.content)

(***************************************************************************)
(* C24: the notifications/initialized request is sent exactly when the     *)
(* initialize response carried a session id, after the initialize request  *)
(* and before the operation's tools/list or tools/call; and however the    *)
(* notification ends, the connection is established and cached and the     *)
(* operation goes on to its request.                                       *)
(***************************************************************************)
C24_NotificationNeverBlocks ==
    [][\A t \in Tasks :
        /\ tPc'[t] = "notify" =>
                (tPc[t] \in {"init", "notify"} /\ tConn'[t].sessionId # "null")
        /\ (tPc[t] = "init" /\ tPc'[t] = "request") =>
                tConn'[t].sessionId = "null"
        /\ (tPc[t] = "notify" /\ tPc'[t] # "notify") =>
                /\ tPc'[t] = "request"
                /\ connections'[Url(t)] = tConn'[t]
                /\ tConn'[t].sessionId = tConn[t].sessionId]_vars

(***************************************************************************)
(* C27: the arguments callTool gets keep every value the model supplied    *)
(* for addressId, restaurantId and cartId, whatever the session state      *)
(* holds for that identifier.                                              *)
(***************************************************************************)
C27_SuppliedValuesKept ==
    bPc = "called" =>
        \A id \in {"addressId", "restaurantId", "cartId"} :
            bInput[id] # "absent" => bArgs[id] = bInput[id]

(***************************************************************************)
(* C28: every tools/list and tools/call request carries the credential its *)
(* caller passed to the operation, also when the connection it is sent on  *)
(* was established by a caller with another credential.                    *)
(***************************************************************************)
C28_RequestCarriesCallersToken ==
    \A t \in Tasks :
        tRequest[t] # None =>
            tRequest[t].headers.Authorization = tOp[t].token

\* the operation of the task ended with an error before its request was sent
FailedBeforeRequest(t) ==
    tPc[t] = "done" /\ tRequest[t] = None /\ tResult[t] # None /\ ~tResult[t].ok

\* every cached connection is a whole one, made with a usable token
CachedConnectionsWhole ==
    \A b \in BaseUrls :
        connections[b] # None =>
            /\ connections[b].baseUrl = b
            /\ connections[b].token \in Tokens
            /\ connections[b].sessionId \in SessionIds
            /\ initCount[b] > 0

(***************************************************************************)
(* C29: an operation whose handshake fails (no token, a rejected fetch, an *)
(* error object, a status that is not 2xx, a rejected notification) writes *)
(* nothing to the connection cache; the cache only ever holds whole        *)
(* connections; and an operation that finds no connection for its          *)
(* endpoint and has a token sends a new initialize request.                *)
(***************************************************************************)
C29_FailedHandshakeNotCached ==
    /\ []CachedConnectionsWhole
    /\ [][\A t \in Tasks :
            /\ (~FailedBeforeRequest(t) /\ FailedBeforeRequest(t)') =>
                    connections' = connections
            /\ (/\ tPc[t] = "idle" /\ tPc'[t] # "idle"
                /\ tOp'[t].server \in Servers
                /\ connections[Url(t)'] = None
                /\ tOp'[t].token \in Tokens) =>
                    /\ tPc'[t] = "init"
                    /\ initCount'[Url(t)'] = initCount[Url(t)'] + 1]_vars

\* the handshake of one operation failed with an error of the endpoint, and
\* the next operation on that endpoint is in a handshake of its own
C29_Witness ==
    \E t, u \in Tasks :
        /\ FailedBeforeRequest(t)
        /\ tResult[t].message[1] = "MCP initialize failed: "
        /\ tPc[u] = "init"
        /\ Url(u) = Url(t)
        /\ connections[Url(t)] = None
        /\ initCount[Url(t)] = 2

\* a call that finds a catalog cached under its credential returns that
\* catalog, whole or partial, and sends no tools/list request
CachedCatalogServed ==
    \A c \in Callers :
        (gPc[c] # "idle" /\ SnapHit(c)) =>
            /\ gPc[c] = "done"
            /\ ~gFresh[c]
            /\ gListTokens[c] = {}
            /\ gResult[c] = Return(gSnap[c].cache.tools)

\* the step is the completion of a call that had started before the cache
\* held a catalog under its credential
InFlightFetchCompletes ==
    \E c \in Callers :
        /\ gPc[c] = "fetching" /\ gPc'[c] = "done"
        /\ ~SnapHit(c)
        /\ gToken[c] = cachedToolsToken
        /\ gResult'[c].ok
        /\ cachedTools' = Cached(gResult'[c].value)

(***************************************************************************)
(* C30 (as amended): a call of getClaudeTools that finds a catalog cached  *)
(* under its credential returns it without any tools/list request, also    *)
(* when the catalog is partial; and a cached catalog changes only by       *)
(* clearCaches, by a fetch under another credential, or by the completion  *)
(* of a fetch under the same credential that was already in flight when    *)
(* the catalog was cached.                                                 *)
(***************************************************************************)
C30_CachedCatalogStays ==
    /\ []CachedCatalogServed
    /\ [][(cachedTools # None /\ cachedTools' # cachedTools) =>
            \/ cachedTools' = None
            \/ cachedToolsToken' # cachedToolsToken
            \/ InFlightFetchCompletes]_vars

\* a fetch lost an endpoint, its partial catalog was cached, and a later
\* call with the same credential was served from it
C30_Witness ==
    \E c, d \in Callers :
        /\ gPc[c] = "done" /\ gFresh[c] /\ gResult[c].ok
        /\ Len(gResult[c].value) < Cardinality(Servers)
        /\ gPc[d] = "done" /\ SnapHit(d) /\ ~gFresh[d]
        /\ gToken[d] = gToken[c]
        /\ gResult[d] = gResult[c]
        /\ cachedTools = Cached(gResult[c].value)

(***************************************************************************)
(* C30: a call of getClaudeTools that finds a catalog cached under its     *)
(* credential returns it without any tools/list request, also when the     *)
(* catalog is partial; and a cached catalog (with it the absence of a      *)
(* failed endpoint's tools) changes only by clearCaches or by a fetch      *)
(* under another credential.                                               *)
(***************************************************************************)
C30_CachedCatalogStaysUntilClear ==
    /\ []CachedCatalogServed
    /\ [][(cachedTools # None /\ cachedTools' # cachedTools) =>
            \/ cachedTools' = None
            \/ cachedToolsToken' # cachedToolsToken]_vars

(***************************************************************************)
(* SpecSession: the session state (ctx) through one invocation of          *)
(* chatWithClaudeMcp: the hint of lines 129-140, and per round the         *)
(* backfill (269-276), the call, the tool_result (306-310) and the update  *)
(* of the session state (312-335) for each tool request in turn, then the  *)
(* results turn and the round guard. An identifier is a string, "absent"   *)
(* when missing, null or empty; "#2" is the JSON number 2. A list is the   *)
(* sequence of its entries' ids (a missing list is the empty one: the code *)
(* only reads its length, with ?.).                                        *)
(***************************************************************************)
GetAddresses ==
    NamespacedTool("swiggy_food", <<"g", "e", "t", "_", "a", "d", "d", "r", "e", "s", "s", "e", "s">>).name

SearchRestaurantsTool ==
    NamespacedTool("swiggy_food",
        <<"s", "e", "a", "r", "c", "h", "_", "r", "e", "s", "t", "a", "u", "r", "a", "n", "t", "s">>).name

GetRestaurantMenu ==
    NamespacedTool("swiggy_food",
        <<"g", "e", "t", "_", "r", "e", "s", "t", "a", "u", "r", "a", "n", "t", "_", "m", "e", "n", "u">>).name

UpdateFoodCart ==
    NamespacedTool("swiggy_food",
        <<"u", "p", "d", "a", "t", "e", "_", "f", "o", "o", "d", "_", "c", "a", "r", "t">>).name

\* the literals of the name.includes(...) tests, lines 317-329
GetAddressesLiteral == <<"g", "e", "t", "_", "a", "d", "d", "r", "e", "s", "s", "e", "s">>

SearchRestaurantsLiteral ==
    <<"s", "e", "a", "r", "c", "h", "_", "r", "e", "s", "t", "a", "u", "r", "a", "n", "t", "s">>

GetRestaurantMenuLiteral ==
    <<"g", "e", "t", "_", "r", "e", "s", "t", "a", "u", "r", "a", "n", "t", "_", "m", "e", "n", "u">>

UpdateFoodCartLiteral ==
    <<"u", "p", "d", "a", "t", "e", "_", "f", "o", "o", "d", "_", "c", "a", "r", "t">>

\* String(v) of a JSON string or number
String(v) == IF v = "#2" THEN "2" ELSE v

\* list.slice(0, n)
Take(list, n) == SubSeq(list, 1, IF Len(list) < n THEN Len(list) ELSE n)

MaxRestaurantsKept == 20

EmptySession ==
    [addresses |-> <<>>, addressId |-> "absent", restaurants |-> <<>>,
     restaurantId |-> "absent", cartId |-> "absent"]

\* the session state the caller passes in: a new chat's, or one that earlier
\* messages of the chat filled
SessionStarts ==
    {EmptySession,
     [addresses |-> <<"a0">>, addressId |-> "a0", restaurants |-> <<>>,
      restaurantId |-> "r0", cartId |-> "c0"]}

\* the identifiers the session state holds
HeldIds(ctx) == {id \in {"addressId", "restaurantId", "cartId"} : ctx[id] # "absent"}

\* lines 129-140: what the hint says; None when nothing is appended
Hint(ctx) ==
    IF HeldIds(ctx) = {} /\ Len(ctx.addresses) = 0 /\ Len(ctx.restaurants) = 0
    THEN None
    ELSE [addressId |-> ctx.addressId, restaurantId |-> ctx.restaurantId,
          cartId |-> ctx.cartId, addresses |-> Len(ctx.addresses),
          restaurants |-> Len(ctx.restaurants)]

\* a member that should hold an array: missing, an array of entries (their
\* ids), or a value of another type
Missing == [shape |-> "missing", ids |-> <<>>]

Array(ids) == [shape |-> "array", ids |-> ids]

NotAnArray == [shape |-> "other", ids |-> <<>>]

\* a tool result that is a JSON object, by the members the update reads
SessionJson(dataAddresses, restaurants, dataRestaurants, deepCartId, dataCartId, rootCartId) ==
    [kind |-> "json", dataAddresses |-> dataAddresses,
     restaurants |-> restaurants, dataRestaurants |-> dataRestaurants,
     deepCartId |-> deepCartId, dataCartId |-> dataCartId,
     rootCartId |-> rootCartId]

EmptyObject == SessionJson(Missing, Missing, Missing, "absent", "absent", "absent")

\* what each tool's call can return
SessionReturns(name) ==
    {EmptyObject} \cup
    (IF Contains(name, GetAddressesLiteral)
     THEN {SessionJson(Array(<<"a1", "a2">>), Missing, Missing, "absent", "absent", "absent"),
           SessionJson(Array(<<>>), Missing, Missing, "absent", "absent", "absent"),
           SessionJson(NotAnArray, Missing, Missing, "absent", "absent", "absent")}
     ELSE IF Contains(name, SearchRestaurantsLiteral)
     THEN {SessionJson(Missing, Array(<<"r1">>), Missing, "absent", "absent", "absent"),
           SessionJson(Missing, Missing, Array(<<"#2">>), "absent", "absent", "absent"),
           SessionJson(Missing, NotAnArray, Missing, "absent", "absent", "absent")}
     ELSE IF Contains(name, UpdateFoodCartLiteral)
     THEN {SessionJson(Missing, Missing, Missing, "c1", "absent", "c9"),
           SessionJson(Missing, Missing, Missing, "absent", "absent", "#2")}
     ELSE {PlainText(<<"order", "placed">>)})

\* callTool for the session's tools: returns a string or throws
SessionOutcomes(name) ==
    {Return(c) : c \in SessionReturns(name)}
        \cup {Throw(<<"upstream", "timeout">>)}

\* JSON.parse(content), line 314
SessionParse(content) ==
    IF content.kind = "json" THEN Return(content) ELSE Throw(<<"SyntaxError">>)

\* the try block was left by an error, with the session state as it was then
Stopped(ctx) == [ok |-> FALSE, value |-> ctx]

\* lines 317-320; x.map(...) is a TypeError unless x is an array
AfterAddresses(ctx, parsed) ==
    IF parsed.dataAddresses.shape = "missing" THEN Return(ctx)
    ELSE IF parsed.dataAddresses.shape # "array" THEN Stopped(ctx)
    ELSE LET ids == parsed.dataAddresses.ids
         IN Return([ctx EXCEPT
                !.addresses = ids,
                !.addressId = IF Len(ids) > 0 /\ @ = "absent" THEN ids[1] ELSE @])

\* lines 321-324
AfterRestaurants(ctx, parsed) ==
    LET list == IF parsed.restaurants.shape # "missing"
                THEN parsed.restaurants ELSE parsed.dataRestaurants
    IN IF list.shape = "missing" THEN Return(ctx)
       ELSE IF list.shape # "array" THEN Stopped(ctx)
       ELSE Return([ctx EXCEPT !.restaurants =
                        Map(String, Take(list.ids, MaxRestaurantsKept))])

\* lines 326-327 and 330-331
FromInput(ctx, inp) ==
    [ctx EXCEPT
        !.restaurantId = IF inp["restaurantId"] # "absent"
                         THEN String(inp["restaurantId"]) ELSE @,
        !.addressId = IF inp["addressId"] # "absent"
                      THEN String(inp["addressId"]) ELSE @]

\* lines 332-333
AfterCart(ctx, parsed) ==
    LET cartId == IF parsed.deepCartId # "absent" THEN parsed.deepCartId
                  ELSE IF parsed.dataCartId # "absent" THEN parsed.dataCartId
                  ELSE parsed.rootCartId
    IN IF cartId # "absent" THEN [ctx EXCEPT !.cartId = String(cartId)] ELSE ctx

\* the body of the try block, lines 314-334: the four tests in turn, each on
\* the session state the one before left; an error ends the block
SessionUpdateTry(ctx, name, inp, content) ==
    LET parsed == SessionParse(content)
        addresses ==
            IF Contains(name, GetAddressesLiteral)
            THEN AfterAddresses(ctx, parsed.value) ELSE Return(ctx)
        restaurants ==
            IF ~addresses.ok THEN addresses
            ELSE IF Contains(name, SearchRestaurantsLiteral)
            THEN AfterRestaurants(addresses.value, parsed.value)
            ELSE addresses
        menu ==
            IF ~restaurants.ok THEN restaurants
            ELSE IF Contains(name, GetRestaurantMenuLiteral)
            THEN Return(FromInput(restaurants.value, inp))
            ELSE restaurants
    IN IF ~parsed.ok THEN Stopped(ctx)
       ELSE IF ~menu.ok THEN menu
       ELSE IF Contains(name, UpdateFoodCartLiteral)
       THEN Return(AfterCart(FromInput(menu.value, inp), parsed.value))
       ELSE menu

\* an update without the try/catch: an error of the block leaves the loop
UpdateSessionUncaught(ctx, name, inp, content) ==
    SessionUpdateTry(ctx, name, inp, content)

\* lines 313-335: try { ... } catch (_) {}
UpdateSession(ctx, name, inp, content) ==
    Return(SessionUpdateTry(ctx, name, inp, content).value)

NoIds == [id \in IdMembers |-> "absent"]

ToolUse(name, input) == [name |-> name, input |-> input]

\* the tool_use blocks one response of the model can hold
SessionRequests ==
    {<<ToolUse(GetAddresses, NoIds)>>,
     <<ToolUse(SearchRestaurantsTool, NoIds)>>,
     <<ToolUse(GetRestaurantMenu, [NoIds EXCEPT !["restaurantId"] = "fromModel"])>>,
     <<ToolUse(UpdateFoodCart, NoIds), ToolUse(PlaceFoodOrder, NoIds)>>,
     <<ToolUse(PlaceFoodOrder, NoIds), ToolUse(UpdateFoodCart, NoIds)>>}

\* a loop that prepares the arguments of all requests when the response
\* arrives (as it would to run the calls concurrently)
BackfillSourceRoundStart(now, atRoundStart) == atRoundStart

\* lines 268-276: the backfill reads ctx when its request's turn has come
BackfillSource(now, atRoundStart) == now

SessionInit ==
    /\ sPc = "start"
    /\ sRound = 0
    /\ sCtx \in SessionStarts
    /\ sRoundCtx = None
    /\ sHint = None
    /\ sUses = <<>>
    /\ sIdx = 0
    /\ sArgs = <<>>
    /\ sResults = <<>>
    /\ sResult = None
    /\ ChatIdle
    /\ BackfillIdle
    /\ VerifyIdle
    /\ LoopIdle
    /\ ConnIdle
    /\ NamesIdle
    /\ ListAllIdle
    /\ TasksIdle
    /\ CacheIdle
    /\ CallersIdle

\* lines 128-148: the hint is appended to the user's message
SStart ==
    /\ sPc = "start"
    /\ sHint' = Hint(sCtx)
    /\ sRoundCtx' = sCtx
    /\ sPc' = "model"
    /\ UNCHANGED <<sRound, sCtx, sUses, sIdx, sArgs, sResults, sResult,
                   SessionFrame>>

\* lines 193-264: the model answers with tool requests, or the loop returns
SModel ==
    /\ sPc = "model"
    /\ \/ /\ sPc' = "done"
          /\ sResult' = Reply(Done, "end_turn")
          /\ UNCHANGED <<sUses, sIdx, sRoundCtx>>
       \/ \E uses \in SessionRequests :
            /\ sUses' = uses
            /\ sIdx' = 1
            /\ sRoundCtx' = sCtx
            /\ sPc' = "tools"
            /\ UNCHANGED sResult
    /\ UNCHANGED <<sRound, sCtx, sHint, sArgs, sResults, SessionFrame>>

\* lines 268-336 for the request sUses[sIdx]: backfill, callTool settles,
\* the tool_result, the update of the session state
STool ==
    /\ sPc = "tools"
    /\ LET use == sUses[sIdx]
           input == BackfillInput(use.name, use.input,
                                  BackfillSource(sCtx, sRoundCtx))
       IN \E settled \in SessionOutcomes(use.name) :
            LET content == ToolContent(settled)
                updated == UpdateSession(sCtx, use.name, input, content)
            IN /\ sArgs' = Append(sArgs, input)
               /\ sResults' = Append(sResults,
                                [type |-> "tool_result", tool_use_id |-> sIdx,
                                 content |-> content])
               /\ sCtx' = updated.value
               /\ IF ~updated.ok
                  THEN /\ sPc' = "done"
                       /\ sResult' = Throw(<<"TypeError">>)
                       /\ UNCHANGED sIdx
                  ELSE IF sIdx < Len(sUses)
                  THEN /\ sIdx' = sIdx + 1
                       /\ UNCHANGED <<sPc, sResult>>
                  ELSE /\ sPc' = "push"
                       /\ UNCHANGED <<sIdx, sResult>>
    /\ UNCHANGED <<sRound, sRoundCtx, sHint, sUses, SessionFrame>>

\* lines 338-351: the results turn is appended and the round ends; after
\* the last round the loop returns the reply-limit message
SPush ==
    /\ sPc = "push"
    /\ sRound' = sRound + 1
    /\ sUses' = <<>>
    /\ sIdx' = 0
    /\ sArgs' = <<>>
    /\ sResults' = <<>>
    /\ sRoundCtx' = sCtx
    /\ IF RoundGuard(sRound + 1)
       THEN /\ sPc' = "model"
            /\ UNCHANGED sResult
       ELSE /\ sPc' = "done"
            /\ sResult' = Reply(limitMsg, "end_turn")
    /\ UNCHANGED <<sCtx, sHint, SessionFrame>>

SessionNext ==
    \/ SStart
    \/ SModel
    \/ STool
    \/ SPush

SpecSession == SessionInit /\ [][SessionNext]_vars

\* the cart id a tool result carries ("absent": none, or not JSON)
ReturnedCartId(content) ==
    IF content.kind # "json" THEN "absent"
    ELSE IF content.deepCartId # "absent" THEN content.deepCartId
    ELSE IF content.dataCartId # "absent" THEN content.dataCartId
    ELSE content.rootCartId

\* the calls of the round so far were made one at a time, in request order
OneAfterAnother ==
    sPc \in {"tools", "push"} =>
        /\ Len(sArgs) = Len(sResults)
        /\ Len(sArgs) = (IF sPc = "tools" THEN sIdx - 1 ELSE Len(sUses))
        /\ \A i \in 1..Len(sResults) : sResults[i].tool_use_id = i

(***************************************************************************)
(* C21: the tool requests of a round are executed one at a time in request *)
(* order, each step executing exactly the next one; and the session state  *)
(* an earlier call of the round left is the one a later call is backfilled *)
(* from: when update_food_cart returned a cart id and an order tool        *)
(* requested next in the round names no cart, callTool gets that cart id.  *)
(***************************************************************************)
C21_SequentialWithinRound ==
    /\ []OneAfterAnother
    /\ [](\A j \in 2..Len(sArgs) :
            (/\ Contains(sUses[j - 1].name, UpdateFoodCartLiteral)
             /\ ReturnedCartId(sResults[j - 1].content) # "absent"
             /\ ORDER_TOOL_PATTERN(sUses[j].name)
             /\ sUses[j].input["cartId"] = "absent"
             /\ sUses[j].input["cart_id"] = "absent") =>
                sArgs[j]["cartId"] = String(ReturnedCartId(sResults[j - 1].content)))
    /\ [][sPc = "tools" =>
            /\ Len(sArgs') = Len(sArgs) + 1
            /\ sResults'[sIdx].tool_use_id = sIdx
            /\ sPc' = "tools" => sIdx' = sIdx + 1]_vars

\* update_food_cart returned cart c1 and the place_food_order requested
\* after it in the same round was called with it, though the session state
\* held another cart or none when the round began
C21_Witness ==
    /\ sPc = "push"
    /\ Len(sUses) = 2
    /\ sUses[1].name = UpdateFoodCart
    /\ sUses[2].name = PlaceFoodOrder
    /\ ReturnedCartId(sResults[1].content) = "c1"
    /\ sRoundCtx.cartId # "c1"
    /\ sArgs[2]["cartId"] = "c1"
    /\ sCtx.cartId = "c1"

\* chatWithClaudeMcp has returned the reply-limit message
LimitExit == sPc = "done" /\ sResult = Reply(limitMsg, "end_turn")

(***************************************************************************)
(* C23: the loop returns the reply-limit message only when the 15th round  *)
(* has ended, and that exit leaves the session state exactly as the last   *)
(* tool call's update left it: every identifier and list, untouched.       *)
(***************************************************************************)
C23_LimitExitKeepsSession ==
    /\ [](LimitExit => sRound = maxRounds)
    /\ [][LimitExit' =>
            /\ sPc = "push"
            /\ sCtx' = sCtx]_vars

\* the loop ran into the ceiling with a session that was empty at the start
\* and holds what the rounds gathered
C23_Witness ==
    /\ LimitExit
    /\ sRound = maxRounds
    /\ sHint = None
    /\ sCtx.addresses = <<"a1", "a2">>
    /\ sCtx.addressId = "a1"
    /\ sCtx.restaurants = <<"r1">>
    /\ sCtx.restaurantId = "fromModel"
    /\ sCtx.cartId = "2"

(***************************************************************************)
(* C25: whenever the model is about to be invoked, in the first round as   *)
(* in every later one, the hint in the transcript is the hint of the       *)
(* session state as it is then.                                            *)
(***************************************************************************)
C25_HintIsCurrent ==
    sPc = "model" => sHint = Hint(sCtx)

\* the result of the call is not JSON: a caught failure or a plain text
Unparseable(content) == content.kind = "text"

(***************************************************************************)
(* C26: the update of the session state never raises out of the loop,      *)
(* whatever the tool result is; the tool_result block of the call holds    *)
(* the content as callTool settled it (the returned string, or "Error: "   *)
(* and the message), whatever the update does; and after a result that is  *)
(* not JSON the session state is what it was before the call.              *)
(***************************************************************************)
C26_UpdateFailuresIgnored ==
    /\ [](sResult # None => sResult.ok)
    /\ [][sPc = "tools" =>
            /\ sPc' \in {"tools", "push"}
            /\ sResults'[sIdx].content \in
                    {ToolContent(settled) :
                        settled \in SessionOutcomes(sUses[sIdx].name)}
            /\ Unparseable(sResults'[sIdx].content) => sCtx' = sCtx
            /\ (/\ sResults'[sIdx].content.kind = "json"
                /\ NotAnArray \in {sResults'[sIdx].content.dataAddresses,
                                   sResults'[sIdx].content.restaurants})
                    => sCtx' = sCtx]_vars

\* update_food_cart threw while the session state held identifiers: the
\* error went to the model and the session state stayed as it was
C26_Witness ==
    /\ sPc = "tools"
    /\ sIdx = 2
    /\ sUses[1].name = UpdateFoodCart
    /\ StartsWithError(sResults[1].content)
    /\ sCtx = sRoundCtx
    /\ sCtx.cartId = "c1"

(***************************************************************************)
(* SpecChat: the message handler of index.js (lines 84-188) for messages   *)
(* that arrive while earlier ones are still being handled.  A handler runs *)
(* alone from one await to the next, so each action is the code between    *)
(* two awaits.  objects is the heap of session state objects: the Map      *)
(* sessionState and the handlers hold references (indices) into it.  The   *)
(* identifiers a loop invocation extracts are written as the number of     *)
(* /clear commands that had been handled for the chat when that loop       *)
(* invocation started, so that a state shows which loop wrote each of them.*)
(***************************************************************************)
MAX_TURNS == 5
\* the messages received in one behaviour
MaxMessages == 3
\* a field of the session state that holds null
NoId == -1
\* line 49: the object getSessionState creates
NewState ==
    [addressId |-> NoId, restaurantId |-> NoId, cartId |-> NoId,
     restaurants |-> <<>>, addresses |-> <<>>]

\* msg.text?.trim(): a blank message, a command that only answers (/start;
\* /help does the same), /clear, and a request in plain language
ChatTexts == {"", "/start", "/clear", "hello"}
\* what chatWithClaudeMcp returns as text
ChatReplies == {"ok", ""}
\* line 152 and 176: reply || 'Done.'
OrDone(reply) == IF reply = "" THEN "Done." ELSE reply

\* history.slice(-n)
LastN(history, n) ==
    IF Len(history) <= n THEN history
    ELSE SubSeq(history, Len(history) - n + 1, Len(history))

\* lines 55-60 and 137-140, on chatHistory.get(chatId) || []
getHistory(history) ==
    IF MAX_TURNS <= 0 THEN <<>>
    ELSE LET last == LastN(history, MAX_TURNS * 2)
         IN [i \in 1..Len(last) |->
                [role |-> last[i].role, content |-> last[i].content]]

\* pushHistory without the cut of line 80
pushHistoryKeepAll(history, role, content) ==
    IF MAX_TURNS <= 0 THEN history
    ELSE Append(history, [role |-> role, content |-> content])

\* lines 75-82, on chatHistory.get(chatId) || []: the value set for chatId
pushHistory(history, role, content) ==
    IF MAX_TURNS <= 0 THEN history
    ELSE LET longer == Append(history, [role |-> role, content |-> content])
             maxLen == MAX_TURNS * 2
         IN IF Len(longer) > maxLen THEN LastN(longer, maxLen) ELSE longer

\* lines 175-176
Stored(history, text, reply) ==
    pushHistory(pushHistory(history, "user", text), "assistant", OrDone(reply))

\* a /clear that empties the chat's object where it is and keeps the entry
sessionStateReset(map, heap, chatId) ==
    [map |-> map,
     heap |-> IF map[chatId] = NoObject THEN heap
              ELSE [heap EXCEPT ![map[chatId]] = NewState]]

\* line 127, sessionState.delete(chatId): the entry goes, the object stays
\* as it is for whoever holds it
sessionStateDelete(map, heap, chatId) ==
    [map |-> [map EXCEPT ![chatId] = NoObject], heap |-> heap]

\* lines 46-53: the chat's object, created and entered in the Map when the
\* chat has none
getSessionState(map, heap, chatId) ==
    IF map[chatId] # NoObject
    THEN [map |-> map, heap |-> heap, s |-> map[chatId]]
    ELSE [map |-> [map EXCEPT ![chatId] = Len(heap) + 1],
          heap |-> Append(heap, NewState),
          s |-> Len(heap) + 1]

\* the tool results whose identifiers the loop keeps (claude-mcp.js 313-335)
Extractions == {"get_addresses", "update_food_cart"}
\* claude-mcp.js 317-334 on the object ctx, with identifier id
Extract(ctx, kind, id) ==
    IF kind = "get_addresses"
    THEN [ctx EXCEPT !.addresses = <<id>>,
                     !.addressId = IF ctx.addressId = NoId THEN id ELSE @]
    ELSE [ctx EXCEPT !.restaurantId = id, !.cartId = id]

\* the history of a chat after five requests were answered
Earlier ==
    Stored(Stored(Stored(Stored(Stored(<<>>, "hello", "ok"), "hello", ""),
                         "hello", "ok"), "hello", ""), "hello", "ok")

\* chat c1 is new, or five requests of it were answered before
ChatInit ==
    /\ \E before \in {<<>>, Earlier} :
            chatHistory = [c \in Chats |-> IF c = "c1" THEN before ELSE <<>>]
    /\ sessionState = [c \in Chats |-> NoObject]
    /\ objects = <<>>
    /\ hPc = [h \in Handlers |-> "idle"]
    /\ hChat = [h \in Handlers |-> "c1"]
    /\ hText = [h \in Handlers |-> ""]
    /\ hPrev = [h \in Handlers |-> <<>>]
    /\ hState = [h \in Handlers |-> NoObject]
    /\ hReply = [h \in Handlers |-> ""]
    /\ hEpoch = [h \in Handlers |-> 0]
    /\ clears = [c \in Chats |-> 0]
    /\ handled = 0
    /\ SessionIdle
    /\ BackfillIdle
    /\ VerifyIdle
    /\ LoopIdle
    /\ ConnIdle
    /\ NamesIdle
    /\ ListAllIdle
    /\ TasksIdle
    /\ CacheIdle
    /\ CallersIdle

\* the handler is over: nothing is kept of it
Over(h) ==
    /\ hPc' = [hPc EXCEPT ![h] = "idle"]
    /\ hChat' = [hChat EXCEPT ![h] = "c1"]
    /\ hText' = [hText EXCEPT ![h] = ""]
    /\ hPrev' = [hPrev EXCEPT ![h] = <<>>]
    /\ hState' = [hState EXCEPT ![h] = NoObject]
    /\ hReply' = [hReply EXCEPT ![h] = ""]
    /\ hEpoch' = [hEpoch EXCEPT ![h] = 0]

\* lines 85-134: a message arrives; the handler runs to its first await.
\* After a blank message it returns at once; after a command nothing but
\* the sending of the answer is left, which touches no state, so the
\* handler is over here; after a request it waits for line 134
HReceive(h) ==
    /\ hPc[h] = "idle"
    /\ \A k \in Handlers : k < h => hPc[k] # "idle"
    /\ handled < MaxMessages
    /\ handled' = handled + 1
    /\ \E c \in Chats, text \in ChatTexts :
        IF text = "/clear"
        THEN LET after == sessionStateDelete(sessionState, objects, c)
             IN /\ sessionState' = after.map
                /\ objects' = after.heap
                /\ clears' = [clears EXCEPT ![c] = @ + 1]
                /\ UNCHANGED <<hPc, hChat, hText>>
        ELSE IF text \in {"", "/start"}
        THEN UNCHANGED <<hPc, hChat, hText, sessionState, objects, clears>>
        ELSE /\ hChat' = [hChat EXCEPT ![h] = c]
             /\ hText' = [hText EXCEPT ![h] = text]
             /\ hPc' = [hPc EXCEPT ![h] = "loading"]
             /\ UNCHANGED <<sessionState, objects, clears>>
    /\ UNCHANGED <<chatHistory, hPrev, hState, hReply, hEpoch, ChatFrame>>

\* line 134 rejects: it is outside the try, the handler ends
HLoadingFails(h) ==
    /\ hPc[h] = "loading"
    /\ Over(h)
    /\ UNCHANGED <<chatHistory, sessionState, objects, clears, handled,
                   ChatFrame>>

\* lines 137-149: the history is read, the session state object is taken
\* and chatWithClaudeMcp is called with both (claude-mcp.js 128: ctx is
\* that object)
HBegin(h) ==
    /\ hPc[h] = "loading"
    /\ LET got == getSessionState(sessionState, objects, hChat[h])
       IN /\ sessionState' = got.map
          /\ objects' = got.heap
          /\ hState' = [hState EXCEPT ![h] = got.s]
    /\ hPrev' = [hPrev EXCEPT ![h] = getHistory(chatHistory[hChat[h]])]
    /\ hEpoch' = [hEpoch EXCEPT ![h] = clears[hChat[h]]]
    /\ hPc' = [hPc EXCEPT ![h] = "loop"]
    /\ UNCHANGED <<chatHistory, hChat, hText, hReply, clears, handled,
                   ChatFrame>>

\* claude-mcp.js 313-335: a tool result of the loop is written into ctx
HExtract(h) ==
    /\ hPc[h] = "loop"
    /\ \E kind \in Extractions :
        /\ objects' = [objects EXCEPT ![hState[h]] = Extract(@, kind, hEpoch[h])]
        /\ objects' # objects
    /\ UNCHANGED <<chatHistory, sessionState, hPc, hChat, hText, hPrev, hState,
                   hReply, hEpoch, clears, handled, ChatFrame>>

\* line 144 settles with a reply; lines 151-157 start sending it
HLoopReturns(h) ==
    /\ hPc[h] = "loop"
    /\ \E reply \in ChatReplies : hReply' = [hReply EXCEPT ![h] = reply]
    /\ hPc' = [hPc EXCEPT ![h] = "send"]
    /\ UNCHANGED <<chatHistory, sessionState, objects, hChat, hText, hPrev,
                   hState, hEpoch, clears, handled, ChatFrame>>

\* line 144 rejects: lines 177-186
HLoopThrows(h) ==
    /\ hPc[h] = "loop"
    /\ hPc' = [hPc EXCEPT ![h] = "failed"]
    /\ UNCHANGED <<chatHistory, sessionState, objects, hChat, hText, hPrev,
                   hState, hReply, hEpoch, clears, handled, ChatFrame>>

\* lines 172-176: the reply was sent; the two turns are stored
HStore(h) ==
    /\ chatHistory' = [chatHistory EXCEPT ![hChat[h]] =
                            Stored(@, hText[h], hReply[h])]
    /\ Over(h)
    /\ UNCHANGED <<sessionState, objects, clears, handled, ChatFrame>>

\* line 154 resolves
HSent(h) ==
    /\ hPc[h] = "send"
    /\ HStore(h)

\* lines 158-166: Telegram could not parse the reply, it is sent as text
HSendParseError(h) ==
    /\ hPc[h] = "send"
    /\ hPc' = [hPc EXCEPT ![h] = "plain"]
    /\ UNCHANGED <<chatHistory, sessionState, objects, hChat, hText, hPrev,
                   hState, hReply, hEpoch, clears, handled, ChatFrame>>

\* lines 167-169: any other rejection of line 154 is thrown on
HSendError(h) ==
    /\ hPc[h] = "send"
    /\ hPc' = [hPc EXCEPT ![h] = "failed"]
    /\ UNCHANGED <<chatHistory, sessionState, objects, hChat, hText, hPrev,
                   hState, hReply, hEpoch, clears, handled, ChatFrame>>

\* line 163 resolves
HPlainSent(h) ==
    /\ hPc[h] = "plain"
    /\ HStore(h)

\* line 163 rejects: lines 177-186
HPlainError(h) ==
    /\ hPc[h] = "plain"
    /\ hPc' = [hPc EXCEPT ![h] = "failed"]
    /\ UNCHANGED <<chatHistory, sessionState, objects, hChat, hText, hPrev,
                   hState, hReply, hEpoch, clears, handled, ChatFrame>>

\* lines 178-186: the error message is sent, or its sending is rejected
HFailed(h) ==
    /\ hPc[h] = "failed"
    /\ Over(h)
    /\ UNCHANGED <<chatHistory, sessionState, objects, clears, handled,
                   ChatFrame>>

ChatNext ==
    \E h \in Handlers :
        \/ HReceive(h)
        \/ HLoadingFails(h)
        \/ HBegin(h)
        \/ HExtract(h)
        \/ HLoopReturns(h)
        \/ HLoopThrows(h)
        \/ HSent(h)
        \/ HSendParseError(h)
        \/ HSendError(h)
        \/ HPlainSent(h)
        \/ HPlainError(h)
        \/ HFailed(h)

SpecChat == ChatInit /\ [][ChatNext]_vars

\* the identifiers a session state object holds
Identifiers(ctx) ==
    ({ctx.addressId, ctx.restaurantId, ctx.cartId}
        \cup {ctx.addresses[i] : i \in 1..Len(ctx.addresses)}
        \cup {ctx.restaurants[i] : i \in 1..Len(ctx.restaurants)}) \ {NoId}

\* the loop invocation of handler h is in flight
InLoop(h) == hPc[h] = "loop"

(***************************************************************************)
(* C31: a loop invocation never has in its session state an identifier     *)
(* that was extracted by a loop invocation of the chat which started       *)
(* before a /clear that was handled before its own start, also when the    *)
(* earlier invocation is still running and extracts after the /clear; and  *)
(* handling /clear for one chat leaves the Map entry and the session state *)
(* object of every other chat as they were.                                *)
(***************************************************************************)
C31_ClearCutsOffEarlierLoops ==
    /\ [](\A g \in Handlers :
            InLoop(g) =>
                \A id \in Identifiers(objects[hState[g]]) : id >= hEpoch[g])
    /\ [][\A c \in Chats :
            clears'[c] # clears[c] =>
                \A other \in Chats \ {c} :
                    /\ sessionState'[other] = sessionState[other]
                    /\ sessionState[other] # NoObject =>
                         objects'[sessionState[other]]
                            = objects[sessionState[other]]]_vars

\* two loop invocations of chat c1 in flight, one from before the /clear
\* and one from after it, each with identifiers in its own object, while
\* chat c2 has a session state with identifiers of its own
C31_Witness ==
    /\ InLoop(1) /\ InLoop(2)
    /\ hChat[1] = "c1" /\ hChat[2] = "c1"
    /\ hEpoch[1] = 0 /\ hEpoch[2] = 1
    /\ clears["c1"] = 1
    /\ hState[1] # hState[2]
    /\ sessionState["c1"] = hState[2]
    /\ objects[hState[1]].cartId = 0
    /\ objects[hState[2]].cartId = 1
    /\ objects[hState[2]].addressId = NoId

\* at most MAX_TURNS pairs, each a user turn followed by an assistant turn
WellFormed(history) ==
    /\ Len(history) <= MAX_TURNS * 2
    /\ Len(history) % 2 = 0
    /\ \A i \in 1..Len(history) :
        history[i].role = IF i % 2 = 1 THEN "user" ELSE "assistant"

\* handler h has read the history of its chat (line 137)
HasRead(h) == hPc[h] \in {"loop", "send", "plain", "failed"}

(***************************************************************************)
(* C32: under every interleaving of the handlers, the history stored for a *)
(* chat and the history a handler has read hold at most 10 entries, an     *)
(* even number of them, user and assistant in turn from a user entry; and  *)
(* a handler that fails (line 134 rejects, the loop rejects, or the reply  *)
(* cannot be sent) leaves every history as it was.                         *)
(***************************************************************************)
C32_HistoryWellFormed ==
    /\ [](/\ \A c \in Chats : WellFormed(chatHistory[c])
          /\ \A h \in Handlers : HasRead(h) => WellFormed(hPrev[h]))
    /\ [][\A h \in Handlers :
            (\/ hPc[h] # "failed" /\ hPc'[h] = "failed"
             \/ hPc[h] \in {"failed", "loading"} /\ hPc'[h] = "idle")
                => chatHistory' = chatHistory]_vars

\* a request of chat c1 was answered when the history was full: the oldest
\* pair is gone and the new pair is last; the next handler has read that
\* history and its loop rejected, while another handler of the chat is
\* sending its reply
C32_Witness ==
    /\ hPc[1] = "failed" /\ hChat[1] = "c1"
    /\ hPc[2] = "send" /\ hChat[2] = "c1"
    /\ Len(hPrev[1]) = MAX_TURNS * 2
    /\ hPrev[1][2].content = "Done."
    /\ hPrev[1][MAX_TURNS * 2].content = "Done."
    /\ chatHistory["c1"] = hPrev[1]
    /\ hPrev[2] = Earlier

====
